---------------------------- MODULE Spec2Model ----------------------------
(***************************************************************************)
(* A model of the AquaSolar telemetry / pump-command backend (src/app.py). *)
(*                                                                         *)
(* The Firestore store is modelled document by document, one namespace per *)
(* account: realtime_status/current, commands/control, the four log        *)
(* collections and the per-day consumption documents.  The process-local   *)
(* throttle cache (account_cache) is a variable of its own.  Every HTTP    *)
(* handler is one action that models the whole handler.                    *)
(*                                                                         *)
(* Conventions.  A value that may be missing (a dictionary key that is not *)
(* there, a document that does not exist, Python's None) is a set with at  *)
(* most one element: {} is "missing", {v} is "present with value v".       *)
(* Flow rates and voltages are counted in tenths (0.5 L/min is 5) and      *)
(* volumes in thousandths of a litre (5.0 L is 5000), so the arithmetic of *)
(* the model is exact and the rounding of the summaries to two decimals    *)
(* (app.py:262-264, 510) is not the identity.  Times are seconds.          *)
(***************************************************************************)
EXTENDS Integers, Sequences, FiniteSets, TLC

VARIABLES
    now,              \* the wall clock: time.time(), SERVER_TIMESTAMP
    registered,       \* accounts created by /register (they have a login)
    account_cache,    \* app.py:43, account id -> missing or cache entry
    realtime_status,  \* accounts/<id>/realtime_status/current
    commands,         \* accounts/<id>/commands/control
    sensor_logs,      \* accounts/<id>/sensor_logs, in order of insertion
    power_logs,       \* accounts/<id>/power_logs
    control_logs,     \* accounts/<id>/control_logs
    alerts,           \* accounts/<id>/alerts
    consumption,      \* accounts/<id>/consumption/<date>
    resp,             \* the request handled last and the response it got
    call,             \* a pure function under evaluation: arguments, result
    nreq,             \* history: the number of requests handled so far
    leak_history,     \* history: the leakage flags the account has pushed
    poll_phase,       \* history: what followed the account's last operator
                      \* write: "nowrite" (there was none), "written"
                      \* (nothing yet), "acked" (an acknowledgement and no
                      \* poll), "polled" (a poll)
    inflight,         \* the requests being handled step by step: for each
                      \* worker thread its position and its local variables
    returned,         \* history: whether a poll or a push response has
                      \* returned the account's last written command
    received          \* history: the action that the last poll or push
                      \* response with an action carried to the field
                      \* unit of each account (empty: none so far)

vars == << now, registered, account_cache, realtime_status, commands,
           sensor_logs, power_logs, control_logs, alerts, consumption,
           resp, call, nreq, leak_history, poll_phase, inflight, returned,
           received >>

store == << realtime_status, commands, sensor_logs, power_logs,
            control_logs, alerts, consumption >>

-----------------------------------------------------------------------------
(* Bounds of the model.                                                    *)

\* The clock when the process starts (seconds); far beyond every interval,
\* as the epoch time is.
StartTime == 86400

\* How long the clock runs in the model (seconds after StartTime).
Horizon == 600

\* How many requests the server handles in the model.
MaxRequests == 6

\* How many pushes the server handles in the model of the throttled log
\* writer.
MaxPushes == 4

\* How many pushes the server handles in the model of the alert detector.
MaxLeakPushes == 7

\* The largest value that is_significant_change is evaluated on.
MaxValue == 8

\* How many days before the start, and after the end, of the model's clock
\* a consumption record may be dated.
DaysBefore == 8

DaysAfter == 1

Accounts == {"ACC_A", "ACC_B"}

\* The account id of a request that carries none.
NoAccount == ""

-----------------------------------------------------------------------------
(* Program constants, app.py:56-64.                                        *)

\* 0.5 L/min, in tenths.
FLOW_CHANGE_THRESHOLD == 5

BATTERY_CHANGE_THRESHOLD == 5

SENSOR_LOG_INTERVAL == 300

POWER_LOG_INTERVAL == 600

CONSUMPTION_UPDATE_INTERVAL == 1800

\* 0.3 V, in tenths.
VOLTAGE_CHANGE_THRESHOLD == 3

\* The battery floor of the low-battery alert, app.py:921.
LOW_BATTERY_FLOOR == 10

\* The value a missing battery_percent is read as, app.py:921-923.
BATTERY_DEFAULT == 100

SECONDS_PER_DAY == 86400

\* The seconds after last_update during which the unit counts as online,
\* app.py:223.
ONLINE_WINDOW == 60

\* The days back that the weekly and the monthly summary reach,
\* app.py:232-233, and that the usage summary reaches when the request
\* names no start date, app.py:633.
WEEK_DAYS == 7

MONTH_DAYS == 30

-----------------------------------------------------------------------------
(* Helpers for values that may be missing.                                 *)

Val(o) == CHOOSE x \in o : TRUE

Abs(x) == IF x < 0 THEN -x ELSE x

\* dict.get(key, default)
Get(o, default) == IF o = {} THEN default ELSE Val(o)

\* datetime.now().date(): the calendar day of a clock value.
DateOf(t) == t \div SECONDS_PER_DAY

\* The days of the consumption records: from DaysBefore days before the
\* process starts to DaysAfter days after the clock of the model stops.
Dates ==
    (DateOf(StartTime) - DaysBefore)
        .. (DateOf(StartTime + Horizon) + DaysAfter)

-----------------------------------------------------------------------------
(* Firebase helper functions, app.py:86-312.                               *)

\* A single shared document for all accounts, as before the store was
\* namespaced by account.
get_account_ref_shared(account_id) == "ACC_A"

\* app.py:86-98: the account's document, the root of all its collections.
\* Every collection of the model is indexed by this reference.
get_account_ref(account_id) == account_id

\* A comparison that does not count a change equal to the threshold.
is_significant_change_strict(new_value, old_value, threshold) ==
    IF old_value = {} THEN TRUE
    ELSE Abs(new_value - Val(old_value)) > threshold

\* app.py:100-104.
is_significant_change(new_value, old_value, threshold) ==
    IF old_value = {} THEN TRUE
    ELSE Abs(new_value - Val(old_value)) >= threshold

\* app.py:45-54: the cache entry a first request of an account creates.
NewCache ==
    [ last_sensor_log_time |-> 0,
      last_power_log_time |-> 0,
      last_consumption_update_time |-> 0,
      last_logged_values |->
          [ flow_in_L_min |-> {}, battery_percent |-> {},
            leakage_detected |-> {} ] ]

get_account_cache(account_id) ==
    IF account_cache[account_id] = {} THEN NewCache
    ELSE Val(account_cache[account_id])

\* app.py:106-119.  failed: the store rejects the write; the error is
\* printed and swallowed.
add_sensor_log(logs, sensor_id, reading_value, failed) ==
    IF failed THEN logs
    ELSE Append(logs, [ sensor_id_fk |-> sensor_id, timestamp |-> now,
                        reading_value |-> reading_value, unit |-> "L/min" ])

\* app.py:121-134.
add_control_log(logs, action, method, failed) ==
    IF failed THEN logs
    ELSE Append(logs, [ control_time |-> now, action |-> action,
                        method |-> method ])

\* app.py:136-149.
add_power_log(logs, voltage, current, battery_percent, failed) ==
    IF failed THEN logs
    ELSE Append(logs, [ power_level_V |-> voltage, current_A |-> current,
                        battery_percent |-> battery_percent,
                        recorded_at |-> now ])

\* An alert writer that writes nothing.
add_alert_lost(logs, alert_type, failed) == logs

\* app.py:151-164.
add_alert(logs, alert_type, failed) ==
    IF failed THEN logs
    ELSE Append(logs, [ alert_type |-> alert_type, alert_date |-> now,
                        status |-> "Active" ])

\* app.py:166-192: docs is the account's consumption collection.
update_consumption_batch(docs, volume_in, pump_cycles, failed) ==
    LET today == DateOf(now) IN
    IF failed THEN docs
    ELSE IF docs[today] # {}
    THEN LET doc == Val(docs[today]) IN
         [ docs EXCEPT ![today] =
             { [ doc EXCEPT
                   !.consumption_total = @ + volume_in,
                   !.pump_cycles = @ + pump_cycles ] } ]
    ELSE [ docs EXCEPT ![today] =
             { [ consumption_date |-> today,
                 consumption_total |-> volume_in,
                 pump_cycles |-> pump_cycles ] } ]

\* app.py:271-280: the snapshot document, missing when the read fails.
get_realtime_status(account_id, failed) ==
    IF failed THEN {} ELSE realtime_status[get_account_ref(account_id)]

\* The fields of a telemetry payload that the snapshot keeps.
DataFields ==
    { "flow_in_L_min", "volume_in_L", "battery_percent",
      "battery_voltage_V", "current_A", "pump_state", "leakage_detected" }

\* app.py:282-289 with a last_update that only the first write sets.
update_realtime_status_keeps_time(doc, data, failed) ==
    LET old == IF doc = {}
               THEN [ k \in DataFields \cup {"last_update", "esp32_online"}
                        |-> {} ]
               ELSE Val(doc)
        merged == [ k \in DataFields \cup {"last_update", "esp32_online"} |->
                      IF k = "last_update"
                      THEN IF old[k] = {} THEN {now} ELSE old[k]
                      ELSE IF k = "esp32_online" THEN {TRUE}
                      ELSE IF data[k] # {} THEN data[k] ELSE old[k] ]
    IN  IF failed THEN doc ELSE {merged}

\* app.py:282-289: set(data, merge=True) with last_update and esp32_online.
update_realtime_status(doc, data, failed) ==
    LET old == IF doc = {}
               THEN [ k \in DataFields \cup {"last_update", "esp32_online"}
                        |-> {} ]
               ELSE Val(doc)
        merged == [ k \in DataFields \cup {"last_update", "esp32_online"} |->
                      IF k = "last_update" THEN {now}
                      ELSE IF k = "esp32_online" THEN {TRUE}
                      ELSE IF data[k] # {} THEN data[k] ELSE old[k] ]
    IN  IF failed THEN doc ELSE {merged}

\* app.py:291-300: the command document, missing when the read fails.
get_command(account_id, failed) ==
    IF failed THEN {} ELSE commands[get_account_ref(account_id)]

\* A write that replaces the action and leaves the status of an existing
\* document as it is.
set_command_keeps_status(doc, action, failed) ==
    IF failed THEN doc
    ELSE IF doc = {}
    THEN { [ action |-> action, timestamp |-> now, status |-> "pending" ] }
    ELSE { [ Val(doc) EXCEPT !.action = action ] }

\* app.py:302-312: set() replaces the whole document.
set_command(doc, action, failed) ==
    IF failed THEN doc
    ELSE { [ action |-> action, timestamp |-> now, status |-> "pending" ] }

\* A status update that re-arms a command that was executed.
update_command_status_rearms(doc, new_status) ==
    IF Val(doc).status = "executed"
    THEN { [ Val(doc) EXCEPT !.status = "pending" ] }
    ELSE { [ Val(doc) EXCEPT !.status = new_status ] }

\* A status update that is lost.
update_command_status_lost(doc, new_status) == doc

\* app.py:960-962, 983-985: DocumentReference.update({'status': s}) of
\* the command document.
update_command_status(doc, new_status) ==
    { [ Val(doc) EXCEPT !.status = new_status ] }

-----------------------------------------------------------------------------
(* Requests and responses.                                                 *)

\* The store operations that a request may find failing.
StoreOps ==
    { "realtime_status.get", "realtime_status.set", "sensor_logs",
      "power_logs", "alerts", "consumption", "commands.get",
      "commands.set", "commands.update", "control_logs" }

\* A telemetry payload.
Data(flow, volume, percent, voltage, current, pump, leak) ==
    [ flow_in_L_min |-> flow, volume_in_L |-> volume,
      battery_percent |-> percent, battery_voltage_V |-> voltage,
      current_A |-> current, pump_state |-> pump,
      leakage_detected |-> leak ]

NoData == Data({}, {}, {}, {}, {}, {}, {})

\* A handled request and its response: the endpoint, the account id and the
\* payload the request carried, the HTTP status, the "status" key of the
\* body, and its "command" and "pump" keys; failed: the store operations
\* that failed while the request was handled; online, summary: the
\* "esp32_online" key and the consumption figures of a dashboard response.
Response(op, account_id, code, status, command, pump) ==
    [ op |-> op, account_id |-> account_id, data |-> NoData, code |-> code,
      status |-> status, command |-> command, pump |-> pump, failed |-> {},
      online |-> {}, summary |-> {} ]

NoRequest == Response("none", NoAccount, 0, "", {}, {})

\* The worker threads that handle requests step by step.
Workers == { 1, 2 }

\* A worker thread that handles no request.  pc: the position in the
\* handler; account_id, data: the request; current_time (app.py:853), today
\* (app.py:169), doc (app.py:171), cmd (app.py:956): local variables of
\* the handler; gate: whether the consumption gate was passed (app.py:928).
Idle == [ pc |-> "idle", account_id |-> NoAccount, data |-> NoData,
          current_time |-> 0, today |-> 0, doc_exists |-> FALSE,
          gate |-> FALSE, cmd |-> {} ]

NoCall == [ fn |-> "none", new_value |-> 0, old_value |-> {},
            threshold |-> 0, result |-> {} ]

-----------------------------------------------------------------------------
(* POST /api/esp32/status, app.py:834-944.                                 *)

\* A sensor stream that logs on the interval alone.
should_log_sensor_interval_only(data, cache) ==
    /\ data.flow_in_L_min # {}
    /\ now - cache.last_sensor_log_time >= SENSOR_LOG_INTERVAL

\* app.py:858-874: the decision of the sensor stream.
should_log_sensor(data, cache) ==
    /\ data.flow_in_L_min # {}
    /\ \/ now - cache.last_sensor_log_time >= SENSOR_LOG_INTERVAL
       \/ is_significant_change(Val(data.flow_in_L_min),
                                cache.last_logged_values.flow_in_L_min,
                                FLOW_CHANGE_THRESHOLD)

\* A power stream whose interval has to be exceeded.
should_log_power_strict_gate(data, cache) ==
    /\ data.battery_voltage_V # {}
    /\ data.current_A # {}
    /\ data.battery_percent # {}
    /\ \/ now - cache.last_power_log_time > POWER_LOG_INTERVAL
       \/ is_significant_change(Val(data.battery_percent),
                                cache.last_logged_values.battery_percent,
                                BATTERY_CHANGE_THRESHOLD)

\* app.py:882-898: the decision of the power stream.
should_log_power(data, cache) ==
    /\ data.battery_voltage_V # {}
    /\ data.current_A # {}
    /\ data.battery_percent # {}
    /\ \/ now - cache.last_power_log_time >= POWER_LOG_INTERVAL
       \/ is_significant_change(Val(data.battery_percent),
                                cache.last_logged_values.battery_percent,
                                BATTERY_CHANGE_THRESHOLD)

\* A sensor stream whose write does not restart its interval.
CacheAfterSensor_keeps_time(data, cache) ==
    IF should_log_sensor(data, cache)
    THEN [ cache EXCEPT
             !.last_logged_values.flow_in_L_min = data.flow_in_L_min ]
    ELSE cache

\* A sensor stream whose write restarts the interval of the power stream
\* too.
CacheAfterSensor_shared_timer(data, cache) ==
    IF should_log_sensor(data, cache)
    THEN [ cache EXCEPT
             !.last_sensor_log_time = now,
             !.last_power_log_time = now,
             !.last_logged_values.flow_in_L_min = data.flow_in_L_min ]
    ELSE cache

\* A cache that remembers the last flow seen, logged or not.
CacheAfterSensor_last_seen(data, cache) ==
    IF should_log_sensor(data, cache)
    THEN [ cache EXCEPT
             !.last_sensor_log_time = now,
             !.last_logged_values.flow_in_L_min = data.flow_in_L_min ]
    ELSE IF data.flow_in_L_min # {}
    THEN [ cache EXCEPT
             !.last_logged_values.flow_in_L_min = data.flow_in_L_min ]
    ELSE cache

\* app.py:876-880: the cache after the sensor stream.
CacheAfterSensor(data, cache) ==
    IF should_log_sensor(data, cache)
    THEN [ cache EXCEPT
             !.last_sensor_log_time = now,
             !.last_logged_values.flow_in_L_min = data.flow_in_L_min ]
    ELSE cache

\* A power stream whose throttle state follows every battery percent seen.
CacheAfterPower_any_percent(data, cache) ==
    IF data.battery_percent # {}
    THEN [ cache EXCEPT
             !.last_power_log_time = now,
             !.last_logged_values.battery_percent = data.battery_percent ]
    ELSE cache

\* app.py:900-909: the cache after the power stream.
CacheAfterPower(data, cache) ==
    IF should_log_power(data, cache)
    THEN [ cache EXCEPT
             !.last_power_log_time = now,
             !.last_logged_values.battery_percent = data.battery_percent ]
    ELSE cache

\* app.py:913-916: a leakage that the cache does not know yet.
leakage_alert(data, cache) ==
    /\ Get(data.leakage_detected, FALSE)
    /\ ~ Get(cache.last_logged_values.leakage_detected, FALSE)

\* A stored flag that is set by a leakage and never cleared.
CacheAfterLeakage_never_cleared(data, cache) ==
    IF Get(data.leakage_detected, FALSE)
    THEN [ cache EXCEPT !.last_logged_values.leakage_detected = { TRUE } ]
    ELSE cache

\* app.py:918: the flag is stored on every push.
CacheAfterLeakage(data, cache) ==
    [ cache EXCEPT !.last_logged_values.leakage_detected =
                       { Get(data.leakage_detected, FALSE) } ]

\* app.py:920-924: cache is the cache after the power stream.
low_battery_alert(data, cache) ==
    /\ Get(data.battery_percent, BATTERY_DEFAULT) <= LOW_BATTERY_FLOOR
    /\ Get(cache.last_logged_values.battery_percent, BATTERY_DEFAULT)
          > LOW_BATTERY_FLOOR

\* app.py:926-928: the gate of the consumption update.
\* app.py:927-928 without the test of the interval.
should_update_consumption_ungated(data, cache) ==
    data.volume_in_L # {}

\* app.py:927-928.
should_update_consumption(data, cache) ==
    /\ data.volume_in_L # {}
    /\ now - cache.last_consumption_update_time
          >= CONSUMPTION_UPDATE_INTERVAL

\* app.py:930.
CacheAfterConsumption(data, cache) ==
    IF should_update_consumption(data, cache)
    THEN [ cache EXCEPT !.last_consumption_update_time = now ]
    ELSE cache

\* A response that carries the action of any command, pending or not.
StatusResponse_any_status(account_id, cmd) ==
    Response("status", account_id, 200, "ok",
             IF cmd # {} THEN { Val(cmd).action } ELSE {},
             {})

\* app.py:933-940: the response carries the action of a pending command.
StatusResponse(account_id, cmd) ==
    Response("status", account_id, 200, "ok",
             IF cmd # {} /\ Val(cmd).status = "pending"
             THEN { Val(cmd).action } ELSE {},
             {})

\* The whole handler.  account_id: the id the request carries (NoAccount
\* when it carries none); data: the payload; f: the store operations that
\* fail during this request.
esp32_status_update(account_id, data, f) ==
    IF account_id = NoAccount
    THEN /\ resp' = Response("status", NoAccount, 400, "error", {}, {})
         /\ UNCHANGED << now, registered, account_cache, store, call,
                         inflight, leak_history, poll_phase, returned,
                         received >>
    ELSE
    LET ref    == get_account_ref(account_id)
        cache0 == get_account_cache(account_id)
        cache1 == CacheAfterSensor(data, cache0)
        cache2 == CacheAfterPower(data, cache1)
        cache3 == CacheAfterLeakage(data, cache2)
        cache4 == CacheAfterConsumption(data, cache3)
        alerts1 == IF leakage_alert(data, cache2)
                   THEN add_alert(alerts[ref], "Leakage", "alerts" \in f)
                   ELSE alerts[ref]
        alerts2 == IF low_battery_alert(data, cache2)
                   THEN add_alert(alerts1, "Low Battery", "alerts" \in f)
                   ELSE alerts1
    IN
    /\ realtime_status' =
         [ realtime_status EXCEPT ![ref] =
             update_realtime_status(@, data, "realtime_status.set" \in f) ]
    /\ sensor_logs' =
         [ sensor_logs EXCEPT ![ref] =
             IF should_log_sensor(data, cache0)
             THEN add_sensor_log(@, "SENS_FLOW_IN", Val(data.flow_in_L_min),
                                 "sensor_logs" \in f)
             ELSE @ ]
    /\ power_logs' =
         [ power_logs EXCEPT ![ref] =
             IF should_log_power(data, cache1)
             THEN add_power_log(@, Val(data.battery_voltage_V),
                                Val(data.current_A),
                                Val(data.battery_percent),
                                "power_logs" \in f)
             ELSE @ ]
    /\ alerts' = [ alerts EXCEPT ![ref] = alerts2 ]
    /\ consumption' =
         [ consumption EXCEPT ![ref] =
             IF should_update_consumption(data, cache3)
             THEN update_consumption_batch(@, Val(data.volume_in_L), 1,
                                           "consumption" \in f)
             ELSE @ ]
    /\ account_cache' = [ account_cache EXCEPT ![account_id] = { cache4 } ]
    /\ resp' = [ StatusResponse(account_id,
                                get_command(account_id,
                                            "commands.get" \in f))
                    EXCEPT !.data = data, !.failed = f ]
    /\ leak_history' =
         [ leak_history EXCEPT ![account_id] =
             IF data.leakage_detected # {}
             THEN Append(@, Val(data.leakage_detected)) ELSE @ ]
    /\ returned' = [ returned EXCEPT ![account_id] =
                        @ \/ resp'.command # {} ]
    /\ received' = [ received EXCEPT ![account_id] =
                        IF resp'.command # {} THEN resp'.command ELSE @ ]
    /\ UNCHANGED << now, registered, commands, control_logs, call,
                    inflight, poll_phase >>

-----------------------------------------------------------------------------
(* POST /api/esp32/status handled by a worker thread, step by step.  The   *)
(* steps are cut at the two store calls of update_consumption_batch        *)
(* (app.py:171 and app.py:175/183), where another thread may run.          *)

\* app.py:173-189 with a write of the pushed values in place of the
\* increments.
consumption_write_set(docs, today, doc_exists, volume_in, pump_cycles, failed) ==
    IF failed THEN docs
    ELSE [ docs EXCEPT ![today] =
             { [ consumption_date |-> today,
                 consumption_total |-> volume_in,
                 pump_cycles |-> pump_cycles ] } ]

\* app.py:173-189: the write that follows doc_ref.get().  doc_exists is what
\* the get returned.  update() of a document that is not there raises
\* NotFound, which app.py:191 swallows; set() replaces the document.
consumption_write(docs, today, doc_exists, volume_in, pump_cycles, failed) ==
    IF failed THEN docs
    ELSE IF doc_exists
    THEN IF docs[today] = {} THEN docs
         ELSE [ docs EXCEPT ![today] =
                  { [ Val(@) EXCEPT
                        !.consumption_total = @ + volume_in,
                        !.pump_cycles = @ + pump_cycles ] } ]
    ELSE [ docs EXCEPT ![today] =
             { [ consumption_date |-> today,
                 consumption_total |-> volume_in,
                 pump_cycles |-> pump_cycles ] } ]

\* app.py:842-928: from the start of the handler to the consumption gate.
PushBegin(w, account_id, data, f) ==
    /\ inflight[w].pc = "idle"
    /\ IF account_id = NoAccount
       THEN /\ resp' = Response("status", NoAccount, 400, "error", {}, {})
            /\ UNCHANGED << now, registered, account_cache, store, call,
                            inflight, leak_history, poll_phase, returned,
                            received >>
       ELSE
       LET ref    == get_account_ref(account_id)
           cache0 == get_account_cache(account_id)
           cache1 == CacheAfterSensor(data, cache0)
           cache2 == CacheAfterPower(data, cache1)
           cache3 == CacheAfterLeakage(data, cache2)
           alerts1 == IF leakage_alert(data, cache2)
                      THEN add_alert(alerts[ref], "Leakage", "alerts" \in f)
                      ELSE alerts[ref]
           alerts2 == IF low_battery_alert(data, cache2)
                      THEN add_alert(alerts1, "Low Battery", "alerts" \in f)
                      ELSE alerts1
           gate == should_update_consumption(data, cache3)
       IN
       /\ realtime_status' =
            [ realtime_status EXCEPT ![ref] =
                update_realtime_status(@, data,
                                       "realtime_status.set" \in f) ]
       /\ sensor_logs' =
            [ sensor_logs EXCEPT ![ref] =
                IF should_log_sensor(data, cache0)
                THEN add_sensor_log(@, "SENS_FLOW_IN",
                                    Val(data.flow_in_L_min),
                                    "sensor_logs" \in f)
                ELSE @ ]
       /\ power_logs' =
            [ power_logs EXCEPT ![ref] =
                IF should_log_power(data, cache1)
                THEN add_power_log(@, Val(data.battery_voltage_V),
                                   Val(data.current_A),
                                   Val(data.battery_percent),
                                   "power_logs" \in f)
                ELSE @ ]
       /\ alerts' = [ alerts EXCEPT ![ref] = alerts2 ]
       /\ account_cache' =
            [ account_cache EXCEPT ![account_id] = { cache3 } ]
       /\ leak_history' =
            [ leak_history EXCEPT ![account_id] =
                IF data.leakage_detected # {}
                THEN Append(@, Val(data.leakage_detected)) ELSE @ ]
       /\ inflight' =
            [ inflight EXCEPT ![w] =
                [ Idle EXCEPT !.pc = IF gate THEN "get" ELSE "respond",
                              !.account_id = account_id,
                              !.data = data,
                              !.current_time = now,
                              !.gate = gate ] ]
       /\ UNCHANGED << now, registered, commands, control_logs,
                       consumption, resp, call, poll_phase, returned,
                       received >>

\* app.py:169-171: today and doc_ref.get().  A failing store raises, and
\* app.py:191 swallows it.
ConsumptionGet(w, f) ==
    LET self == inflight[w]
        ref == get_account_ref(self.account_id)
        today == DateOf(now)
    IN
    /\ self.pc = "get"
    /\ inflight' =
         [ inflight EXCEPT ![w] =
             IF "consumption" \in f
             THEN [ self EXCEPT !.pc = "respond" ]
             ELSE [ self EXCEPT !.pc = "write",
                                !.today = today,
                                !.doc_exists = consumption[ref][today] # {} ] ]
    /\ UNCHANGED << now, registered, account_cache, store, resp, call, nreq,
                    leak_history, poll_phase, returned, received >>

\* app.py:173-189: update() with Increment, or set().
ConsumptionWrite(w, f) ==
    LET self == inflight[w]
        ref == get_account_ref(self.account_id)
    IN
    /\ self.pc = "write"
    /\ consumption' =
         [ consumption EXCEPT ![ref] =
             consumption_write(@, self.today, self.doc_exists,
                               Val(self.data.volume_in_L), 1,
                               "consumption" \in f) ]
    /\ inflight' = [ inflight EXCEPT ![w] = [ self EXCEPT !.pc = "respond" ] ]
    /\ UNCHANGED << now, registered, account_cache, realtime_status,
                    commands, sensor_logs, power_logs, control_logs, alerts,
                    resp, call, nreq, leak_history, poll_phase, returned,
                    received >>

\* app.py:930-940: the gate time is stored, the command is read and the
\* response is sent.
PushRespond(w, f) ==
    LET self == inflight[w]
        account_id == self.account_id
    IN
    /\ self.pc = "respond"
    /\ account_cache' =
         [ account_cache EXCEPT ![account_id] =
             IF self.gate
             THEN { [ Val(@) EXCEPT !.last_consumption_update_time =
                                        self.current_time ] }
             ELSE @ ]
    /\ resp' = [ StatusResponse(account_id,
                                get_command(account_id,
                                            "commands.get" \in f))
                    EXCEPT !.data = self.data, !.failed = f ]
    /\ returned' = [ returned EXCEPT ![account_id] =
                        @ \/ resp'.command # {} ]
    /\ received' = [ received EXCEPT ![account_id] =
                        IF resp'.command # {} THEN resp'.command ELSE @ ]
    /\ inflight' = [ inflight EXCEPT ![w] = [ self EXCEPT !.pc = "done" ] ]
    /\ UNCHANGED << now, registered, store, call, nreq, leak_history,
                    poll_phase >>

-----------------------------------------------------------------------------
(* GET /api/esp32/command, app.py:946-969.                                 *)

esp32_get_command(account_id, f) ==
    IF account_id = NoAccount
    THEN /\ resp' = Response("command", NoAccount, 400, "error", {}, {})
         /\ UNCHANGED << now, registered, account_cache, store, call,
                         inflight, leak_history, poll_phase, returned,
                         received >>
    ELSE
    LET ref == get_account_ref(account_id)
        cmd == get_command(account_id, "commands.get" \in f)
    IN
    /\ IF cmd # {} /\ Val(cmd).status = "pending"
       THEN IF "commands.update" \in f
            THEN /\ resp' = [ Response("command", account_id, 500,
                                        "error", {}, {})
                                 EXCEPT !.failed = f ]
                 /\ UNCHANGED commands
            ELSE /\ commands' =
                      [ commands EXCEPT ![ref] =
                          update_command_status(@, "delivered") ]
                 /\ resp' = [ Response("command", account_id, 200, "",
                                        { Val(cmd).action }, {})
                                 EXCEPT !.failed = f ]
       ELSE /\ resp' = [ Response("command", account_id, 200, "",
                                   { "NONE" }, {})
                            EXCEPT !.failed = f ]
            /\ UNCHANGED commands
    /\ poll_phase' = [ poll_phase EXCEPT ![account_id] =
                          IF resp'.code = 200 /\ @ # "nowrite"
                          THEN "polled" ELSE @ ]
    /\ returned' = [ returned EXCEPT ![account_id] =
                        @ \/ commands'[ref] # commands[ref] ]
    /\ received' = [ received EXCEPT ![account_id] =
                        IF resp'.code = 200 /\ resp'.command # { "NONE" }
                        THEN resp'.command ELSE @ ]
    /\ UNCHANGED << now, registered, account_cache, realtime_status,
                    sensor_logs, power_logs, control_logs, alerts,
                    consumption, call, inflight, leak_history >>

-----------------------------------------------------------------------------
(* GET /api/esp32/command handled by a worker thread, step by step.  The   *)
(* steps are cut between the read of the command (app.py:956) and the      *)
(* update of its status (app.py:960), where another thread may run.        *)

\* app.py:950-958, 965: the read of the command.  When the command is not
\* pending the response goes out in the same step.
PollBegin(w, account_id, f) ==
    LET cmd == get_command(account_id, "commands.get" \in f) IN
    /\ inflight[w].pc \in { "idle", "done" }
    /\ account_id # NoAccount
    /\ IF cmd # {} /\ Val(cmd).status = "pending"
       THEN /\ inflight' =
                 [ inflight EXCEPT ![w] =
                     [ Idle EXCEPT !.pc = "mark",
                                   !.account_id = account_id,
                                   !.cmd = cmd ] ]
            /\ UNCHANGED << resp, poll_phase >>
       ELSE /\ inflight' =
                 [ inflight EXCEPT ![w] =
                     [ Idle EXCEPT !.pc = "done",
                                   !.account_id = account_id ] ]
            /\ resp' = [ Response("command", account_id, 200, "",
                                   { "NONE" }, {})
                            EXCEPT !.failed = f ]
            /\ poll_phase' = [ poll_phase EXCEPT ![account_id] =
                                  IF @ # "nowrite" THEN "polled" ELSE @ ]
    /\ UNCHANGED << now, registered, account_cache, store, call,
                    leak_history, returned, received >>

\* app.py:959-963: the status of the document that is there now is set to
\* delivered, and the action that was read is returned.
PollMark(w) ==
    LET self == inflight[w]
        account_id == self.account_id
        ref == get_account_ref(account_id)
    IN
    /\ self.pc = "mark"
    /\ commands' =
         [ commands EXCEPT ![ref] = update_command_status(@, "delivered") ]
    /\ resp' = Response("command", account_id, 200, "",
                        { Val(self.cmd).action }, {})
    /\ poll_phase' = [ poll_phase EXCEPT ![account_id] =
                          IF @ # "nowrite" THEN "polled" ELSE @ ]
    /\ returned' = [ returned EXCEPT ![account_id] = TRUE ]
    /\ received' = [ received EXCEPT ![account_id] = resp'.command ]
    /\ inflight' = [ inflight EXCEPT ![w] = [ self EXCEPT !.pc = "done" ] ]
    /\ UNCHANGED << now, registered, account_cache, realtime_status,
                    sensor_logs, power_logs, control_logs, alerts,
                    consumption, call, leak_history >>

-----------------------------------------------------------------------------
(* POST /api/esp32/command/ack, app.py:971-994.                            *)

\* An acknowledgement handler that takes a request without an account id
\* as one of the first account.
esp32_command_ack_default_tenant(account_id, action, f) ==
    LET ref == IF account_id = NoAccount THEN "ACC_A"
               ELSE get_account_ref(account_id)
    IN
    /\ IF commands[ref] = {} \/ "commands.update" \in f
       THEN /\ resp' = [ Response("ack", account_id, 500, "error", {}, {})
                            EXCEPT !.failed = f ]
            /\ UNCHANGED << commands, control_logs >>
       ELSE /\ commands' =
                 [ commands EXCEPT ![ref] =
                     update_command_status(@, "executed") ]
            /\ control_logs' =
                 [ control_logs EXCEPT ![ref] =
                     add_control_log(@, action, "Remote",
                                     "control_logs" \in f) ]
            /\ resp' = [ Response("ack", account_id, 200, "acknowledged",
                                   {}, {})
                            EXCEPT !.failed = f ]
    /\ poll_phase' = [ poll_phase EXCEPT ![ref] =
                          IF resp'.code = 200 /\ @ = "written"
                          THEN "acked" ELSE @ ]
    /\ UNCHANGED << now, registered, account_cache, realtime_status,
                    sensor_logs, power_logs, alerts, consumption, call,
                    inflight, leak_history, returned, received >>

\* action: the "action" key of the request body.  update() of a document
\* that does not exist raises NotFound, which the handler answers with 500.
esp32_command_ack(account_id, action, f) ==
    IF account_id = NoAccount
    THEN /\ resp' = Response("ack", NoAccount, 400, "error", {}, {})
         /\ UNCHANGED << now, registered, account_cache, store, call,
                         inflight, leak_history, poll_phase, returned,
                         received >>
    ELSE
    LET ref == get_account_ref(account_id) IN
    /\ IF commands[ref] = {} \/ "commands.update" \in f
       THEN /\ resp' = [ Response("ack", account_id, 500, "error", {}, {})
                            EXCEPT !.failed = f ]
            /\ UNCHANGED << commands, control_logs >>
       ELSE /\ commands' =
                 [ commands EXCEPT ![ref] =
                     update_command_status(@, "executed") ]
            /\ control_logs' =
                 [ control_logs EXCEPT ![ref] =
                     add_control_log(@, action, "Remote",
                                     "control_logs" \in f) ]
            /\ resp' = [ Response("ack", account_id, 200, "acknowledged",
                                   {}, {})
                            EXCEPT !.failed = f ]
    /\ poll_phase' = [ poll_phase EXCEPT ![account_id] =
                          IF resp'.code = 200 /\ @ = "written"
                          THEN "acked" ELSE @ ]
    /\ UNCHANGED << now, registered, account_cache, realtime_status,
                    sensor_logs, power_logs, alerts, consumption, call,
                    inflight, leak_history, returned, received >>

-----------------------------------------------------------------------------
(* POST /toggle_pump, app.py:1046-1075.                                    *)

\* app.py:1057-1061: the opposite of the pump state of the snapshot.
\* app.py:1058-1061 with "ON" in place of the default "OFF".
new_state_absent_is_on(status) ==
    LET current_state == IF status # {}
                         THEN Get(Val(status).pump_state, "ON")
                         ELSE "ON"
    IN  IF current_state = "ON" THEN "OFF" ELSE "ON"

new_state(status) ==
    LET current_state == IF status # {}
                         THEN Get(Val(status).pump_state, "OFF")
                         ELSE "OFF"
    IN  IF current_state = "ON" THEN "OFF" ELSE "ON"

\* account_id: the account of the session (NoAccount: nobody is logged in).
toggle_pump(account_id, f) ==
    IF account_id \notin registered
    THEN /\ resp' = Response("toggle", NoAccount, 403, "error", {}, {})
         /\ UNCHANGED << now, registered, account_cache, store, call,
                         inflight, leak_history, poll_phase, returned,
                         received >>
    ELSE
    LET ref == get_account_ref(account_id)
        new == new_state(get_realtime_status(account_id,
                                             "realtime_status.get" \in f))
    IN
    /\ commands' =
         [ commands EXCEPT ![ref] =
             set_command(@, new, "commands.set" \in f) ]
    /\ control_logs' =
         [ control_logs EXCEPT ![ref] =
             add_control_log(@, IF new = "ON" THEN "TURN_ON" ELSE "TURN_OFF",
                             "Manual", "control_logs" \in f) ]
    /\ resp' = [ Response("toggle", account_id, 200, "command_sent", {},
                           { new })
                    EXCEPT !.failed = f ]
    /\ poll_phase' = [ poll_phase EXCEPT ![account_id] =
                          IF "commands.set" \in f THEN @ ELSE "written" ]
    /\ returned' = [ returned EXCEPT ![account_id] =
                        IF "commands.set" \in f THEN @ ELSE FALSE ]
    /\ UNCHANGED received
    /\ UNCHANGED << now, registered, account_cache, realtime_status,
                    sensor_logs, power_logs, alerts, consumption, call,
                    inflight, leak_history >>

-----------------------------------------------------------------------------
(* The dashboard: GET /status-data, app.py:996-1044, and                   *)
(* GET /api/usage-summary, app.py:611-670.                                 *)

\* app.py:194-226 with <= in place of <.
is_esp32_online_inclusive(account_id, failed) ==
    LET status == get_realtime_status(account_id, failed) IN
    IF status = {} THEN FALSE
    ELSE IF Val(status).last_update = {} THEN FALSE
    ELSE now - Val(Val(status).last_update) <= ONLINE_WINDOW

\* app.py:194-226: any exception reads as offline, like a missing snapshot.
is_esp32_online(account_id, failed) ==
    LET status == get_realtime_status(account_id, failed) IN
    IF status = {} THEN FALSE
    ELSE IF Val(status).last_update = {} THEN FALSE
    ELSE now - Val(Val(status).last_update) < ONLINE_WINDOW

\* start <= record_date <= end with the start excluded.
in_range_half_open(start, record_date, end) ==
    start < record_date /\ record_date <= end

\* app.py:252, 254, 371: start <= record_date <= end.
in_range(start, record_date, end) ==
    start <= record_date /\ record_date <= end

\* round(x, 2) of a volume x in thousandths of a litre, app.py:260-262 and
\* app.py:510: the hundredths nearest to x.  Halfway between two hundredths
\* the float that stands for x decides, so both are possible.
Round2(x) ==
    LET down == x - (x % 10)
        up   == down + 10
    IN  IF x % 10 < 5 THEN { down }
        ELSE IF x % 10 > 5 THEN { up }
        ELSE { down, up }

\* The sum of a field over the records of the given days.
RECURSIVE SumOver(_, _, _)
SumOver(docs, days, field) ==
    IF days = {} THEN 0
    ELSE LET d == CHOOSE x \in days : TRUE IN
         (IF docs[d] = {} THEN 0 ELSE Val(docs[d])[field])
             + SumOver(docs, days \ {d}, field)

\* app.py:245-246, 365-367: the date that data.get('consumption_date')
\* and datetime.strptime(date_str, "%Y-%m-%d") give for a document, none
\* when the field is missing or its text is not a date (the exception is
\* caught and the record skipped).  The text of a date stands in the store
\* as the number of its day; any other text as a string.
strptime(doc) ==
    IF "consumption_date" \notin DOMAIN doc THEN {}
    ELSE IF ToString(doc.consumption_date) \in { ToString(d) : d \in Dates }
    THEN { doc.consumption_date }
    ELSE {}

\* The texts that a consumption_total may hold in place of a number.
NotNumbers == { "abc" }

\* v is a value that Python can add to a number.
is_number(v) == ToString(v) \notin { ToString(t) : t \in NotNumbers }

\* The days of the records whose consumption_date lies in [start, end].
RecordsIn(docs, start, end) ==
    { d \in DOMAIN docs :
        /\ docs[d] # {}
        /\ strptime(Val(docs[d])) # {}
        /\ in_range(start, Val(strptime(Val(docs[d]))), end) }

\* app.py:247-254: the records in [start, end] whose total the += takes;
\* for any other total the += raises and the record is skipped.
Added(docs, start, end) ==
    { d \in RecordsIn(docs, start, end) :
        is_number(Val(docs[d]).consumption_total) }

\* app.py:228-269: the summaries that the function may return (one, unless
\* a total lies halfway between two hundredths); all zero when the read of
\* the collection fails.
get_consumption_summary(account_id, failed) ==
    LET today     == DateOf(now)
        week_ago  == today - WEEK_DAYS
        month_ago == today - MONTH_DAYS
        docs      == consumption[get_account_ref(account_id)]
        today_total == SumOver(docs, Added(docs, today, today),
                               "consumption_total")
        week_total  == SumOver(docs, Added(docs, week_ago, today),
                               "consumption_total")
        month_total == SumOver(docs, Added(docs, month_ago, today),
                               "consumption_total")
    IN  IF failed
        THEN { [ consumption_day |-> 0, consumption_week |-> 0,
                 consumption_month |-> 0 ] }
        ELSE { [ consumption_day |-> d, consumption_week |-> w,
                 consumption_month |-> m ] :
                 d \in Round2(today_total), w \in Round2(week_total),
                 m \in Round2(month_total) }

\* app.py:335-379, 495-511: the consumption figures of the usage summary.
\* A record in the range is appended whatever its total is (app.py:372-376);
\* sum() raises on a total that is not a number, outside the try of the
\* loop, and the except of the function returns the empty structure
\* (app.py:529-553).
get_usage_data_by_date_range(start_date, end_date, account_id) ==
    LET docs == consumption[get_account_ref(account_id)]
        consumption_data == RecordsIn(docs, start_date, end_date)
        total_consumption == SumOver(docs, consumption_data,
                                     "consumption_total")
        total_pump_cycles == SumOver(docs, consumption_data, "pump_cycles")
    IN  IF \E d \in consumption_data :
              ~ is_number(Val(docs[d]).consumption_total)
        THEN { [ start_date |-> start_date, end_date |-> end_date,
                 total_consumption |-> 0, total_pump_cycles |-> 0 ] }
        ELSE { [ start_date |-> start_date, end_date |-> end_date,
                 total_consumption |-> t,
                 total_pump_cycles |-> total_pump_cycles ] :
                 t \in Round2(total_consumption) }

\* GET /status-data.  account_id: the account of the session (NoAccount:
\* nobody is logged in).
status_data(account_id, f) ==
    IF account_id \notin registered
    THEN /\ resp' = Response("status_data", NoAccount, 403, "error", {}, {})
         /\ UNCHANGED << now, registered, account_cache, store, call,
                         inflight, leak_history, poll_phase, returned,
                         received >>
    ELSE
    LET status == get_realtime_status(account_id,
                                      "realtime_status.get" \in f)
        pump   == IF status = {} THEN "N/A"
                  ELSE Get(Val(status).pump_state, "N/A")
    IN
    /\ \E summary \in get_consumption_summary(account_id,
                                               "consumption" \in f) :
         resp' = [ Response("status_data", account_id, 200, "", {}, { pump })
                     EXCEPT !.failed = f,
                            !.online =
                               { is_esp32_online(
                                   account_id,
                                   "realtime_status.get" \in f) },
                            !.summary = { summary } ]
    /\ UNCHANGED << now, registered, account_cache, store, call, inflight,
                    leak_history, poll_phase, returned, received >>

\* GET /api/usage-summary.  start_date, end_date: the query parameters,
\* empty when the request leaves them out (app.py:630-633).
get_usage_summary(account_id, start_date, end_date) ==
    IF account_id \notin registered
    THEN /\ resp' = Response("usage", NoAccount, 403, "error", {}, {})
         /\ UNCHANGED << now, registered, account_cache, store, call,
                         inflight, leak_history, poll_phase, returned,
                         received >>
    ELSE
    LET end   == Get(end_date, DateOf(now))
        start == Get(start_date, DateOf(now) - MONTH_DAYS)
    IN
    /\ \E usage_data \in get_usage_data_by_date_range(start, end,
                                                       account_id) :
         resp' = [ Response("usage", account_id, 200, "", {}, {})
                     EXCEPT !.summary = { usage_data } ]
    /\ UNCHANGED << now, registered, account_cache, store, call, inflight,
                    leak_history, poll_phase, returned, received >>

-----------------------------------------------------------------------------
(* POST /register, app.py:1283-1359.                                       *)

\* app.py:1318-1331: the snapshot of a new account.
InitialStatus ==
    [ flow_in_L_min |-> {0}, volume_in_L |-> {0},
      battery_percent |-> {100}, battery_voltage_V |-> {126},
      current_A |-> {0}, pump_state |-> {"OFF"},
      leakage_detected |-> {FALSE}, last_update |-> {now},
      esp32_online |-> {} ]

\* A new account whose command document waits for delivery.
InitialCommand_pending ==
    [ action |-> "NONE", timestamp |-> now, status |-> "pending" ]

\* app.py:1333-1339: the command document of a new account.
InitialCommand ==
    [ action |-> "NONE", timestamp |-> now, status |-> "executed" ]

\* account_id: the id generated for the new account.
register(account_id) ==
    LET ref == get_account_ref(account_id) IN
    /\ account_id \notin registered
    /\ registered' = registered \cup { account_id }
    /\ realtime_status' = [ realtime_status EXCEPT ![ref] = { InitialStatus } ]
    /\ commands' = [ commands EXCEPT ![ref] = { InitialCommand } ]
    /\ resp' = Response("register", account_id, 302, "", {}, {})
    /\ poll_phase' = [ poll_phase EXCEPT ![account_id] = "nowrite" ]
    /\ returned' = [ returned EXCEPT ![account_id] = FALSE ]
    /\ received' = [ received EXCEPT ![account_id] = {} ]
    /\ UNCHANGED << now, account_cache, sensor_logs, power_logs,
                    control_logs, alerts, consumption, call, inflight,
                    leak_history >>

-----------------------------------------------------------------------------
(* The clock.                                                              *)

\* The clock advances by dt seconds, up to horizon seconds after the start.
TickWithin(dt, horizon) ==
    /\ now + dt <= StartTime + horizon
    /\ now' = now + dt
    /\ resp' = NoRequest
    /\ UNCHANGED << registered, account_cache, store, call, inflight, nreq,
                    leak_history, poll_phase, returned, received >>

Tick(dt) == TickWithin(dt, Horizon)

-----------------------------------------------------------------------------
(* The process stops and a new one starts on the same store.               *)

\* A restart that carries the throttle cache over.
restart_keeps_cache ==
    /\ inflight' = [ w \in Workers |-> Idle ]
    /\ resp' = Response("restart", NoAccount, 0, "", {}, {})
    /\ UNCHANGED << now, registered, account_cache, store, call,
                    leak_history, poll_phase, returned, received >>

\* app.py:43: account_cache = {} when the module is loaded; the requests
\* in flight are gone, the store is as it was.
restart ==
    /\ account_cache' = [ a \in Accounts |-> {} ]
    /\ inflight' = [ w \in Workers |-> Idle ]
    /\ resp' = Response("restart", NoAccount, 0, "", {}, {})
    /\ UNCHANGED << now, registered, store, call, leak_history,
                    poll_phase, returned, received >>

-----------------------------------------------------------------------------
(* The state when the process starts on an empty store.                    *)

Init ==
    /\ now = StartTime
    /\ registered = {}
    /\ account_cache = [ a \in Accounts |-> {} ]
    /\ realtime_status = [ a \in Accounts |-> {} ]
    /\ commands = [ a \in Accounts |-> {} ]
    /\ sensor_logs = [ a \in Accounts |-> << >> ]
    /\ power_logs = [ a \in Accounts |-> << >> ]
    /\ control_logs = [ a \in Accounts |-> << >> ]
    /\ alerts = [ a \in Accounts |-> << >> ]
    /\ consumption = [ a \in Accounts |-> [ d \in Dates |-> {} ] ]
    /\ resp = NoRequest
    /\ call = NoCall
    /\ nreq = 0
    /\ leak_history = [ a \in Accounts |-> << >> ]
    /\ poll_phase = [ a \in Accounts |-> "nowrite" ]
    /\ inflight = [ w \in Workers |-> Idle ]
    /\ returned = [ a \in Accounts |-> FALSE ]
    /\ received = [ a \in Accounts |-> {} ]

-----------------------------------------------------------------------------
(* Spec: two accounts, the command mailbox and all four endpoints.         *)

\* The payloads of the field units.
MailboxPayloads ==
    { Data({10}, {5000}, {80}, {126}, {2}, {"ON"}, {FALSE}),
      Data({}, {}, {}, {}, {}, {"OFF"}, {TRUE}) }

\* Each request is handled while the budget of the model lasts.
Register ==
    \E a \in Accounts :
        /\ nreq < MaxRequests
        /\ register(a)
        /\ nreq' = nreq + 1

StatusUpdate ==
    \E a \in Accounts \cup {NoAccount}, d \in MailboxPayloads :
        /\ nreq < MaxRequests
        /\ esp32_status_update(a, d, {})
        /\ nreq' = nreq + 1

GetCommand ==
    \E a \in Accounts \cup {NoAccount} :
        /\ nreq < MaxRequests
        /\ esp32_get_command(a, {})
        /\ nreq' = nreq + 1

CommandAck ==
    \E a \in Accounts \cup {NoAccount}, act \in {"ON", "OFF"} :
        /\ nreq < MaxRequests
        /\ esp32_command_ack(a, act, {})
        /\ nreq' = nreq + 1

TogglePump ==
    \E a \in Accounts \cup {NoAccount} :
        /\ nreq < MaxRequests
        /\ toggle_pump(a, {})
        /\ nreq' = nreq + 1

Next == Register \/ StatusUpdate \/ GetCommand \/ CommandAck \/ TogglePump

Spec == Init /\ [][Next]_vars

-----------------------------------------------------------------------------
(* SpecThrottle: the pushes of one field unit as the clock advances.       *)

\* Flow 1.0, 1.3, 1.5 L/min and battery 12, 9, 17 percent: steps below, at
\* and above the thresholds; a payload without power fields and one
\* without flow.
ThrottlePayloads ==
    { Data({10}, {}, {12}, {126}, {2}, {}, {}),
      Data({13}, {}, {9}, {124}, {2}, {}, {}),
      Data({15}, {}, {17}, {126}, {3}, {}, {}),
      Data({13}, {}, {}, {}, {}, {}, {}),
      Data({}, {}, {9}, {124}, {2}, {}, {}) }

\* The clock advances by half a sensor interval.
ThrottleTickSteps == { SENSOR_LOG_INTERVAL \div 2 }

ThrottlePush ==
    \E d \in ThrottlePayloads :
        /\ nreq < MaxPushes
        /\ esp32_status_update("ACC_A", d, {})
        /\ nreq' = nreq + 1

ThrottleTick == \E dt \in ThrottleTickSteps : Tick(dt)

NextThrottle == ThrottlePush \/ ThrottleTick

SpecThrottle == Init /\ [][NextThrottle]_vars

-----------------------------------------------------------------------------
(* SpecSignificant: is_significant_change on drawn arguments, and the      *)
(* first pushes of an account.                                             *)

Values == 0 .. MaxValue

InitSignificant ==
    /\ Init!1 /\ Init!2 /\ Init!3 /\ Init!4 /\ Init!5 /\ Init!6 /\ Init!7
    /\ Init!8 /\ Init!9 /\ Init!10 /\ Init!11 /\ Init!13 /\ Init!14
    /\ Init!15 /\ Init!16 /\ Init!17 /\ Init!18
    /\ call \in [ fn : { "is_significant_change" },
                  new_value : Values,
                  old_value : { {} } \cup { {v} : v \in Values },
                  threshold : { FLOW_CHANGE_THRESHOLD,
                                BATTERY_CHANGE_THRESHOLD,
                                VOLTAGE_CHANGE_THRESHOLD },
                  result : { {} } ]

\* The call returns.
Evaluate ==
    /\ call.result = {}
    /\ call' = [ call EXCEPT !.result =
                   { is_significant_change(call.new_value, call.old_value,
                                           call.threshold) } ]
    /\ UNCHANGED << now, registered, account_cache, store, resp, nreq,
                    leak_history, poll_phase, inflight, returned, received >>

FirstPayloads ==
    { Data({10}, {}, {12}, {126}, {2}, {}, {}),
      Data({13}, {}, {}, {}, {}, {}, {}),
      Data({}, {}, {9}, {124}, {2}, {}, {}) }

FirstPush ==
    \E a \in Accounts, d \in FirstPayloads :
        /\ nreq < 2
        /\ esp32_status_update(a, d, {})
        /\ nreq' = nreq + 1

NextSignificant == Evaluate \/ FirstPush

SpecSignificant == InitSignificant /\ [][NextSignificant]_vars

-----------------------------------------------------------------------------
(* SpecLeak: pushes that carry the leakage flag and nothing else.          *)

LeakPayloads ==
    { Data({}, {}, {}, {}, {}, {}, {flag}) : flag \in BOOLEAN }

LeakPush ==
    \E a \in Accounts, d \in LeakPayloads :
        /\ nreq < MaxLeakPushes
        /\ esp32_status_update(a, d, {})
        /\ nreq' = nreq + 1

NextLeak == LeakPush

SpecLeak == Init /\ [][NextLeak]_vars

-----------------------------------------------------------------------------
(* SpecConsumption: two worker threads, each handling one push that        *)
(* carries a volume.  The process has just started on the store that an    *)
(* earlier process left: ACC_A has no record of the day, ACC_B has one.    *)

\* The record of the day that the earlier process left: 1.0 L in one
\* update.
EarlierDay(a) ==
    IF a = "ACC_B"
    THEN { [ consumption_date |-> DateOf(StartTime),
             consumption_total |-> 1000, pump_cycles |-> 1 ] }
    ELSE {}

\* The volumes of the two pushes: 5.0 L and 3.2 L.
ConsumptionPayload(w) ==
    Data({}, { IF w = 1 THEN 5000 ELSE 3200 }, {}, {}, {}, {}, {})

InitConsumption ==
    /\ Init!1 /\ Init!2 /\ Init!3 /\ Init!4 /\ Init!5 /\ Init!6 /\ Init!7
    /\ Init!8 /\ Init!9 /\ Init!11 /\ Init!12 /\ Init!13 /\ Init!14
    /\ Init!15 /\ Init!16 /\ Init!17 /\ Init!18
    /\ consumption =
         [ a \in Accounts |->
             [ d \in Dates |->
                 IF d = DateOf(StartTime) THEN EarlierDay(a) ELSE {} ] ]

WorkerBegin ==
    \E w \in Workers, a \in Accounts :
        /\ PushBegin(w, a, ConsumptionPayload(w), {})
        /\ nreq' = nreq + 1

WorkerGet == \E w \in Workers : ConsumptionGet(w, {})

WorkerWrite == \E w \in Workers : ConsumptionWrite(w, {})

WorkerRespond == \E w \in Workers : PushRespond(w, {})

NextConsumption ==
    WorkerBegin \/ WorkerGet \/ WorkerWrite \/ WorkerRespond

SpecConsumption == InitConsumption /\ [][NextConsumption]_vars

-----------------------------------------------------------------------------
(* SpecFailure: requests during which store operations fail.               *)

\* How many requests the server handles in the model of store failures.
MaxFailureRequests == 3

\* The writes of the conditional records of a push.
ConditionalOps == { "sensor_logs", "power_logs", "alerts", "consumption" }

\* What fails during one push: nothing, one of the conditional writes, all
\* of them, the snapshot update or the command read.
PushFailures ==
    { {}, ConditionalOps, { "realtime_status.set" }, { "commands.get" } }
        \cup { { op } : op \in ConditionalOps }

\* What fails during one poll: nothing, the command read or the update.
PollFailures == { {}, { "commands.get" }, { "commands.update" } }

\* What fails during one toggle: nothing, the snapshot read, the command
\* write or the control log.
ToggleFailures ==
    { {}, { "realtime_status.get" }, { "commands.set" }, { "control_logs" } }

\* A payload that is due in every stream on a first push (flow 1.0 L/min,
\* 5.0 L, 80 %, a leakage), and a later one (flow 1.6 L/min, 70 %).
FailurePayloads ==
    { Data({10}, {5000}, {80}, {126}, {2}, {"ON"}, {TRUE}),
      Data({16}, {}, {70}, {124}, {2}, {"OFF"}, {FALSE}) }

FailureRegister ==
    \E a \in Accounts :
        /\ nreq < MaxFailureRequests
        /\ register(a)
        /\ nreq' = nreq + 1

FailureStatusUpdate ==
    \E a \in Accounts, d \in FailurePayloads, f \in PushFailures :
        /\ nreq < MaxFailureRequests
        /\ esp32_status_update(a, d, f)
        /\ nreq' = nreq + 1

FailureGetCommand ==
    \E a \in Accounts, f \in PollFailures :
        /\ nreq < MaxFailureRequests
        /\ esp32_get_command(a, f)
        /\ nreq' = nreq + 1

FailureTogglePump ==
    \E a \in Accounts, f \in ToggleFailures :
        /\ nreq < MaxFailureRequests
        /\ toggle_pump(a, f)
        /\ nreq' = nreq + 1

NextFailure ==
    \/ FailureRegister
    \/ FailureStatusUpdate
    \/ FailureGetCommand
    \/ FailureTogglePump

SpecFailure == Init /\ [][NextFailure]_vars

-----------------------------------------------------------------------------
(* SpecFields: pushes of one field unit whose payloads carry any subset of *)
(* the metric fields.                                                      *)

\* How many pushes the server handles in the model of missing fields.
MaxFieldPushes == 2

\* Flow 1.0 L/min, volume 5.0 L, battery 9 %, 12.4 V, 0.2 A: each one
\* there or not.
FieldPayloads ==
    { Data(flow, volume, percent, voltage, current, {}, {}) :
        flow \in { {}, {10} }, volume \in { {}, {5000} },
        percent \in { {}, {9} }, voltage \in { {}, {124} },
        current \in { {}, {2} } }

FieldPush ==
    \E d \in FieldPayloads :
        /\ nreq < MaxFieldPushes
        /\ esp32_status_update("ACC_A", d, {})
        /\ nreq' = nreq + 1

NextFields == FieldPush

SpecFields == Init /\ [][NextFields]_vars

-----------------------------------------------------------------------------
(* SpecOnline: the dashboard of ACC_A reads the snapshot while the unit    *)
(* pushes and the clock advances.  The process starts on a store in which  *)
(* the account exists and its snapshot is missing, has no last_update, or  *)
(* is the one that registration wrote at StartTime.                        *)

\* How many requests the server handles in the model of the online check.
MaxOnlineRequests == 3

\* The steps of the clock: half of the online window.
OnlineTickSteps == { ONLINE_WINDOW \div 2 }

\* The snapshots that the process may find for ACC_A.
OnlineSnapshots ==
    { {}, { [ InitialStatus EXCEPT !.last_update = {} ] }, { InitialStatus } }

\* A push that names only the pump, and one whose flow and leakage flag
\* make the handler write a sensor log entry and an alert.
OnlinePayloads ==
    { Data({}, {}, {}, {}, {}, {"ON"}, {}),
      Data({10}, {}, {}, {}, {}, {"ON"}, {TRUE}) }

\* The conditional writes all work or all fail.
OnlineFailures == { {}, ConditionalOps }

InitOnline ==
    /\ Init!1 /\ Init!3 /\ Init!6 /\ Init!7 /\ Init!8 /\ Init!9
    /\ Init!10 /\ Init!11 /\ Init!12 /\ Init!13 /\ Init!14 /\ Init!15
    /\ Init!16 /\ Init!17 /\ Init!18
    /\ registered = { "ACC_A" }
    /\ \E doc \in OnlineSnapshots :
         realtime_status = [ a \in Accounts |->
                               IF a = "ACC_A" THEN doc ELSE {} ]
    /\ commands = [ a \in Accounts |->
                      IF a = "ACC_A" THEN { InitialCommand } ELSE {} ]

OnlineStatusData ==
    \E a \in Accounts :
        /\ nreq < MaxOnlineRequests
        /\ status_data(a, {})
        /\ nreq' = nreq + 1

OnlinePush ==
    \E d \in OnlinePayloads, f \in OnlineFailures :
        /\ nreq < MaxOnlineRequests
        /\ esp32_status_update("ACC_A", d, f)
        /\ nreq' = nreq + 1

OnlineTick == \E dt \in OnlineTickSteps : Tick(dt)

NextOnline == OnlineStatusData \/ OnlinePush \/ OnlineTick

SpecOnline == InitOnline /\ [][NextOnline]_vars

-----------------------------------------------------------------------------
(* SpecSummary: the dashboard of ACC_A asks for the consumption summary    *)
(* and for usage summaries over date ranges.  The process starts on a      *)
(* store that holds any of four records: one dated a day before the week   *)
(* begins, one on its first day, one today and one tomorrow.               *)

\* How many requests the server handles in the model of the summaries.
MaxSummaryRequests == 2

\* The days of the records that the process may find.
SummaryDays ==
    { DateOf(StartTime) - WEEK_DAYS - 1, DateOf(StartTime) - WEEK_DAYS,
      DateOf(StartTime), DateOf(StartTime) + 1 }

\* The record of day d: 1.0 L, 2.004 L, 5.0 L and 3.2 L, in 1, 2, 4 and 8
\* updates.
SummaryRecord(d) ==
    [ consumption_date |-> d,
      consumption_total |->
          IF d = DateOf(StartTime) - WEEK_DAYS - 1 THEN 1000
          ELSE IF d = DateOf(StartTime) - WEEK_DAYS THEN 2004
          ELSE IF d = DateOf(StartTime) THEN 5000 ELSE 3200,
      pump_cycles |->
          IF d = DateOf(StartTime) - WEEK_DAYS - 1 THEN 1
          ELSE IF d = DateOf(StartTime) - WEEK_DAYS THEN 2
          ELSE IF d = DateOf(StartTime) THEN 4 ELSE 8 ]

\* A push that reports 1.234 L.
SummaryPayloads == { Data({}, {1234}, {}, {}, {}, {}, {}) }

\* The start and end dates that a usage request may name.
SummaryRanges == { {} } \cup { {d} : d \in SummaryDays }

InitSummary ==
    /\ Init!1 /\ Init!3 /\ Init!6 /\ Init!7 /\ Init!8 /\ Init!9
    /\ Init!11 /\ Init!12 /\ Init!13 /\ Init!14 /\ Init!15 /\ Init!16
    /\ Init!17 /\ Init!18
    /\ registered = { "ACC_A" }
    /\ realtime_status = [ a \in Accounts |->
                             IF a = "ACC_A" THEN { InitialStatus } ELSE {} ]
    /\ commands = [ a \in Accounts |->
                      IF a = "ACC_A" THEN { InitialCommand } ELSE {} ]
    /\ \E days \in SUBSET SummaryDays :
         consumption =
           [ a \in Accounts |->
               [ d \in Dates |->
                   IF a = "ACC_A" /\ d \in days
                   THEN { SummaryRecord(d) } ELSE {} ] ]

SummaryStatusData ==
    \E a \in Accounts :
        /\ nreq < MaxSummaryRequests
        /\ status_data(a, {})
        /\ nreq' = nreq + 1

SummaryUsage ==
    \E a \in Accounts, start_date \in SummaryRanges,
       end_date \in SummaryRanges :
        /\ nreq < MaxSummaryRequests
        /\ get_usage_summary(a, start_date, end_date)
        /\ nreq' = nreq + 1

SummaryPush ==
    \E d \in SummaryPayloads :
        /\ nreq < MaxSummaryRequests
        /\ esp32_status_update("ACC_A", d, {})
        /\ nreq' = nreq + 1

NextSummary == SummaryStatusData \/ SummaryUsage \/ SummaryPush

SpecSummary == InitSummary /\ [][NextSummary]_vars

-----------------------------------------------------------------------------
(* SpecToggle: the operator of ACC_A toggles the pump while the unit       *)
(* pushes, polls and acknowledges.  The process starts on a store in which *)
(* the account exists and its snapshot is missing or names the pump state  *)
(* ON, OFF or not at all.                                                  *)

\* How many requests the server handles in the model of the toggle.
MaxToggleRequests == 4

\* The snapshots that the process may find for ACC_A.
ToggleSnapshots ==
    { {} } \cup { { [ InitialStatus EXCEPT !.pump_state = p ] } :
                    p \in { {}, {"ON"}, {"OFF"} } }

\* Pushes that report the pump ON, OFF or not at all.
TogglePayloads ==
    { Data({}, {}, {}, {}, {}, p, {}) : p \in { {}, {"ON"}, {"OFF"} } }

InitToggle ==
    /\ Init!1 /\ Init!3 /\ Init!6 /\ Init!7 /\ Init!8 /\ Init!9
    /\ Init!10 /\ Init!11 /\ Init!12 /\ Init!13 /\ Init!14 /\ Init!15
    /\ Init!16 /\ Init!17 /\ Init!18
    /\ registered = { "ACC_A" }
    /\ \E doc \in ToggleSnapshots :
         realtime_status = [ a \in Accounts |->
                               IF a = "ACC_A" THEN doc ELSE {} ]
    /\ commands = [ a \in Accounts |->
                      IF a = "ACC_A" THEN { InitialCommand } ELSE {} ]

ToggleOperator ==
    \E a \in Accounts :
        /\ nreq < MaxToggleRequests
        /\ toggle_pump(a, {})
        /\ nreq' = nreq + 1

TogglePush ==
    \E d \in TogglePayloads :
        /\ nreq < MaxToggleRequests
        /\ esp32_status_update("ACC_A", d, {})
        /\ nreq' = nreq + 1

TogglePoll ==
    /\ nreq < MaxToggleRequests
    /\ esp32_get_command("ACC_A", {})
    /\ nreq' = nreq + 1

ToggleAck ==
    \E act \in {"ON", "OFF"} :
        /\ nreq < MaxToggleRequests
        /\ esp32_command_ack("ACC_A", act, {})
        /\ nreq' = nreq + 1

NextToggle == ToggleOperator \/ TogglePush \/ TogglePoll \/ ToggleAck

SpecToggle == InitToggle /\ [][NextToggle]_vars

-----------------------------------------------------------------------------
(* SpecLeakAbsent: pushes of one field unit that carry the leakage flag or *)
(* leave it out.                                                           *)

\* How many pushes the server handles in the model of the missing flag.
MaxLeakAbsentPushes == 5

LeakAbsentPayloads ==
    { Data({}, {}, {}, {}, {}, {}, flag) :
        flag \in { {}, {TRUE}, {FALSE} } }

LeakAbsentPush ==
    \E d \in LeakAbsentPayloads :
        /\ nreq < MaxLeakAbsentPushes
        /\ esp32_status_update("ACC_A", d, {})
        /\ nreq' = nreq + 1

NextLeakAbsent == LeakAbsentPush

SpecLeakAbsent == Init /\ [][NextLeakAbsent]_vars

-----------------------------------------------------------------------------
(* SpecGate: serial pushes that carry a volume or none, over an hour.  The *)
(* process has just started on the store that an earlier process left:     *)
(* ACC_A has no record of the day, ACC_B has one.                          *)

\* How many pushes the server handles in the model of the consumption gate.
MaxGatePushes == 4

\* The seconds that the clock of this model covers: two gate intervals.
GateHorizon == 3600

\* The steps of the clock: half of the gate interval.
GateTickSteps == { CONSUMPTION_UPDATE_INTERVAL \div 2 }

\* Pushes that report 5.0 L, 3.2 L or no volume.
GatePayloads ==
    { Data({}, volume, {}, {}, {}, {}, {}) :
        volume \in { {}, {5000}, {3200} } }

GatePush ==
    \E a \in Accounts, d \in GatePayloads :
        /\ nreq < MaxGatePushes
        /\ esp32_status_update(a, d, {})
        /\ nreq' = nreq + 1

GateTick == \E dt \in GateTickSteps : TickWithin(dt, GateHorizon)

NextGate == GatePush \/ GateTick

SpecGate == InitConsumption /\ [][NextGate]_vars

-----------------------------------------------------------------------------
(* SpecRestart: pushes of two field units, all at the same time of day,    *)
(* with restarts of the process in between.                                *)

\* How many pushes and restarts happen in the model of the restart.
MaxRestartRequests == 4

\* A push that carries every metric, one that carries only the flow, and
\* one that carries volume and battery but no voltage.
RestartPayloads ==
    { Data({10}, {5000}, {80}, {126}, {2}, {}, {}),
      Data({10}, {}, {}, {}, {}, {}, {}),
      Data({}, {5000}, {80}, {}, {2}, {}, {}) }

RestartPush ==
    \E a \in Accounts, d \in RestartPayloads :
        /\ nreq < MaxRestartRequests
        /\ esp32_status_update(a, d, {})
        /\ nreq' = nreq + 1

Restart ==
    /\ nreq < MaxRestartRequests
    /\ restart
    /\ nreq' = nreq + 1

NextRestart == RestartPush \/ Restart

SpecRestart == Init /\ [][NextRestart]_vars

-----------------------------------------------------------------------------
(* SpecMalformed: the dashboard of ACC_A asks for the summaries of a store *)
(* that holds well-formed and malformed consumption records.               *)

\* How many requests the server handles in the model of malformed records.
MaxMalformedRequests == 2

\* The document ids of the records that the process may find: the first
\* day of the week, yesterday and today.
MalformedDays ==
    { DateOf(StartTime) - WEEK_DAYS, DateOf(StartTime) - 1,
      DateOf(StartTime) }

\* The kinds of record: none, well-formed, without a date, with a date that
\* does not parse, with a total that is not a number.
RecordKinds == { "none", "good", "no date", "bad date", "bad total" }

\* The record of the given kind under document id d: 2.0 L.
MalformedRecord(kind, d) ==
    IF kind = "good"
    THEN [ consumption_date |-> d, consumption_total |-> 2000,
           pump_cycles |-> 1 ]
    ELSE IF kind = "no date"
    THEN [ consumption_total |-> 2000, pump_cycles |-> 1 ]
    ELSE IF kind = "bad date"
    THEN [ consumption_date |-> "not-a-date", consumption_total |-> 2000,
           pump_cycles |-> 1 ]
    ELSE [ consumption_date |-> d, consumption_total |-> "abc",
           pump_cycles |-> 1 ]

\* The start and end dates that a usage request may name.
MalformedRanges == { {}, { DateOf(StartTime) - 1 } }

InitMalformed ==
    /\ Init!1 /\ Init!3 /\ Init!6 /\ Init!7 /\ Init!8 /\ Init!9
    /\ Init!11 /\ Init!12 /\ Init!13 /\ Init!14 /\ Init!15 /\ Init!16
    /\ Init!17 /\ Init!18
    /\ registered = { "ACC_A" }
    /\ realtime_status = [ a \in Accounts |->
                             IF a = "ACC_A" THEN { InitialStatus } ELSE {} ]
    /\ commands = [ a \in Accounts |->
                      IF a = "ACC_A" THEN { InitialCommand } ELSE {} ]
    /\ \E kind \in [ MalformedDays -> RecordKinds ] :
         consumption =
           [ a \in Accounts |->
               [ d \in Dates |->
                   IF a = "ACC_A" /\ d \in MalformedDays
                      /\ kind[d] # "none"
                   THEN { MalformedRecord(kind[d], d) } ELSE {} ] ]

MalformedStatusData ==
    /\ nreq < MaxMalformedRequests
    /\ status_data("ACC_A", {})
    /\ nreq' = nreq + 1

MalformedUsage ==
    \E start_date \in MalformedRanges, end_date \in MalformedRanges :
        /\ nreq < MaxMalformedRequests
        /\ get_usage_summary("ACC_A", start_date, end_date)
        /\ nreq' = nreq + 1

NextMalformed == MalformedStatusData \/ MalformedUsage

SpecMalformed == InitMalformed /\ [][NextMalformed]_vars

-----------------------------------------------------------------------------
(* SpecAppend: pushes, polls, acknowledgements and toggles of ACC_A, with  *)
(* pushes that report a leakage and a low battery.                         *)

\* How many requests the server handles in the model of the log streams.
MaxAppendRequests == 3

\* A push with flow 1.0 L/min, battery 9 % and a leakage, and one with flow
\* 1.0 L/min, the power fields at 80 % and no leakage.
AppendPayloads ==
    { Data({10}, {}, {9}, {}, {}, {}, {TRUE}),
      Data({10}, {}, {80}, {126}, {2}, {"ON"}, {FALSE}) }

AppendPush ==
    \E d \in AppendPayloads :
        /\ nreq < MaxAppendRequests
        /\ esp32_status_update("ACC_A", d, {})
        /\ nreq' = nreq + 1

AppendPoll ==
    /\ nreq < MaxAppendRequests
    /\ esp32_get_command("ACC_A", {})
    /\ nreq' = nreq + 1

AppendAck ==
    \E act \in {"ON", "OFF"} :
        /\ nreq < MaxAppendRequests
        /\ esp32_command_ack("ACC_A", act, {})
        /\ nreq' = nreq + 1

AppendToggle ==
    /\ nreq < MaxAppendRequests
    /\ toggle_pump("ACC_A", {})
    /\ nreq' = nreq + 1

NextAppend == AppendPush \/ AppendPoll \/ AppendAck \/ AppendToggle

SpecAppend == InitToggle /\ [][NextAppend]_vars

-----------------------------------------------------------------------------
(* SpecPoll: two worker threads handle the command polls of ACC_A while    *)
(* the operator toggles.                                                   *)

\* How many polls and toggles the server handles in the model of
\* interleaved polls.
MaxPollRequests == 4

PollToggle ==
    /\ nreq < MaxPollRequests
    /\ toggle_pump("ACC_A", {})
    /\ nreq' = nreq + 1

PollRead ==
    \E w \in Workers :
        /\ nreq < MaxPollRequests
        /\ PollBegin(w, "ACC_A", {})
        /\ nreq' = nreq + 1

PollDeliver ==
    \E w \in Workers :
        /\ PollMark(w)
        /\ UNCHANGED nreq

NextPoll == PollToggle \/ PollRead \/ PollDeliver

SpecPoll == InitToggle /\ [][NextPoll]_vars

-----------------------------------------------------------------------------
(* SpecNewAccount: the process starts on an empty store; accounts are      *)
(* registered, their dashboards ask for the status, ACC_A has a field      *)
(* unit that pushes, and the clock advances by half the online window.     *)

\* How many requests the server handles in the model of new accounts.
MaxNewAccountRequests == 3

\* How long the clock runs in the model of new accounts (seconds after
\* StartTime).
NewAccountHorizon == 120

NewAccountRegister ==
    \E a \in Accounts :
        /\ nreq < MaxNewAccountRequests
        /\ register(a)
        /\ nreq' = nreq + 1

NewAccountStatusData ==
    \E a \in Accounts :
        /\ nreq < MaxNewAccountRequests
        /\ status_data(a, {})
        /\ nreq' = nreq + 1

NewAccountPush ==
    \E d \in OnlinePayloads :
        /\ nreq < MaxNewAccountRequests
        /\ esp32_status_update("ACC_A", d, {})
        /\ nreq' = nreq + 1

NewAccountTick == \E dt \in OnlineTickSteps : TickWithin(dt, NewAccountHorizon)

NextNewAccount ==
    \/ NewAccountRegister
    \/ NewAccountStatusData
    \/ NewAccountPush
    \/ NewAccountTick

SpecNewAccount == Init /\ [][NextNewAccount]_vars

-----------------------------------------------------------------------------
(* Properties of the command mailbox, checked under Spec.                  *)

\* The step handles a request of endpoint op that carries account id a.
Handles(op, a) == resp'.op = op /\ resp'.account_id = a

\* The command document of account a is there with status s.
HasStatus(a, s) == commands[a] # {} /\ Val(commands[a]).status = s

C2_AckExecutesAndLogs ==
    [][ \A a \in Accounts :
          Handles("ack", a) =>
             /\ HasStatus(a, "executed")'
             /\ Len(control_logs'[a]) = Len(control_logs[a]) + 1
             /\ SubSeq(control_logs'[a], 1, Len(control_logs[a]))
                    = control_logs[a]
             /\ control_logs'[a][Len(control_logs'[a])].method = "Remote"
             /\ sensor_logs' = sensor_logs
             /\ power_logs' = power_logs
             /\ alerts' = alerts ]_vars

\* C3: an operator write leaves exactly one command in the slot, holding the
\* new action with status pending, whatever the slot held before.
C3_WriteOverwrites ==
    [][ \A a \in Accounts :
          (Handles("toggle", a) /\ resp'.code = 200) =>
             /\ resp'.pump \in { {"ON"}, {"OFF"} }
             /\ commands'[a] =
                  { [ action |-> Val(resp'.pump), timestamp |-> now,
                      status |-> "pending" ] } ]_vars

\* An operator write has replaced a command that was written and never
\* acknowledged.
C3_Witness ==
    \E a \in Accounts :
        LET n == Len(control_logs[a]) IN
        /\ resp.op = "toggle" /\ resp.account_id = a /\ resp.code = 200
        /\ n >= 2
        /\ control_logs[a][n].method = "Manual"
        /\ control_logs[a][n - 1].method = "Manual"
        /\ control_logs[a][n].action # control_logs[a][n - 1].action
        /\ HasStatus(a, "pending")

\* C4: a telemetry push leaves every command document as it is, and its
\* response carries the action of the account's command exactly when that
\* command is pending.
C4_PushLeavesMailbox ==
    [][ \A a \in Accounts :
          (Handles("status", a) /\ resp'.code = 200) =>
             /\ commands' = commands
             /\ resp'.command =
                  IF HasStatus(a, "pending")
                  THEN { Val(commands[a]).action } ELSE {} ]_vars

\* A push has answered with the action of a command that is still pending.
C4_Witness ==
    \E a \in Accounts :
        /\ resp.op = "status" /\ resp.account_id = a
        /\ resp.command = { "ON" }
        /\ HasStatus(a, "pending")

\* C5: a push, poll, acknowledgement or toggle of account a leaves the
\* snapshot, command, log streams, consumption records and cache entry of
\* every other account unchanged, and the command it returns, if any, is
\* the pending command of a itself.
C5_TenantIsolation ==
    [][ \A a \in Accounts, b \in Accounts :
          ( /\ a # b
            /\ resp'.account_id = a
            /\ resp'.op \in {"status", "command", "ack", "toggle"} ) =>
             /\ realtime_status'[b] = realtime_status[b]
             /\ commands'[b] = commands[b]
             /\ sensor_logs'[b] = sensor_logs[b]
             /\ power_logs'[b] = power_logs[b]
             /\ control_logs'[b] = control_logs[b]
             /\ alerts'[b] = alerts[b]
             /\ consumption'[b] = consumption[b]
             /\ account_cache'[b] = account_cache[b]
             /\ resp'.command \subseteq
                  { "NONE" } \cup
                  ( IF HasStatus(a, "pending")
                    THEN { Val(commands[a]).action } ELSE {} ) ]_vars

\* An account polls and is answered NONE while the other account's command
\* is pending.
C5_Witness ==
    \E a \in Accounts, b \in Accounts :
        /\ a # b
        /\ resp.op = "command" /\ resp.account_id = b
        /\ resp.command = { "NONE" }
        /\ HasStatus(a, "pending")
        /\ account_cache[b] # {}

-----------------------------------------------------------------------------
(* Properties of the throttled log writer, checked under SpecThrottle.     *)

\* The step handles a push of account a that is answered "ok".
PushOf(a) == Handles("status", a) /\ resp'.code = 200

\* The time of the last write of a stream that the cache of account a holds
\* (0 when the account has no cache entry yet, app.py:49-51).
LastLogTime(a, stream) ==
    IF account_cache[a] = {} THEN 0 ELSE Val(account_cache[a])[stream]

\* The last logged value of a metric that the cache of account a holds.
LastLogged(a, metric) ==
    IF account_cache[a] = {} THEN {}
    ELSE Val(account_cache[a]).last_logged_values[metric]

\* new is significant against the last logged value.
Significant(new, last, threshold) ==
    last = {} \/ Abs(new - Val(last)) >= threshold

\* after is before with exactly one entry appended.
OneAppended(after, before) ==
    /\ Len(after) = Len(before) + 1
    /\ SubSeq(after, 1, Len(before)) = before

\* The payload carries every field of the power stream.
HasPowerFields(d) ==
    d.battery_voltage_V # {} /\ d.current_A # {} /\ d.battery_percent # {}

\* C6: on a push, a stream whose fields are present is written if and only
\* if its interval has elapsed since its last write or the new value is
\* significant against the last logged value (sensor: flow-in, 300 s, 0.5;
\* power: battery percent, 600 s, 5).
C6_LogIffIntervalOrSignificant ==
    [][ \A a \in Accounts :
          PushOf(a) =>
            LET d == resp'.data IN
            /\ d.flow_in_L_min # {} =>
                 ( sensor_logs'[a] # sensor_logs[a]
                   <=> \/ now - LastLogTime(a, "last_sensor_log_time")
                             >= SENSOR_LOG_INTERVAL
                       \/ Significant(Val(d.flow_in_L_min),
                                      LastLogged(a, "flow_in_L_min"),
                                      FLOW_CHANGE_THRESHOLD) )
            /\ HasPowerFields(d) =>
                 ( power_logs'[a] # power_logs[a]
                   <=> \/ now - LastLogTime(a, "last_power_log_time")
                             >= POWER_LOG_INTERVAL
                       \/ Significant(Val(d.battery_percent),
                                      LastLogged(a, "battery_percent"),
                                      BATTERY_CHANGE_THRESHOLD) ) ]_vars

\* A push wrote a sensor entry within the interval, because the flow had
\* changed by the threshold or more, and no power entry.
C6_Witness ==
    \E a \in Accounts :
        LET n == Len(sensor_logs[a]) IN
        /\ resp.op = "status" /\ resp.account_id = a
        /\ n >= 2
        /\ sensor_logs[a][n].timestamp = now
        /\ now - sensor_logs[a][n - 1].timestamp < SENSOR_LOG_INTERVAL
        /\ Abs(sensor_logs[a][n].reading_value
               - sensor_logs[a][n - 1].reading_value)
             >= FLOW_CHANGE_THRESHOLD
        /\ HasPowerFields(resp.data)
        /\ power_logs[a][Len(power_logs[a])].recorded_at < now

\* C7: a push within a stream's interval whose value differs from the last
\* logged value by less than the threshold appends nothing to that stream
\* and leaves the stream's last-log-time and last-logged-value unchanged.
C7_NoWriteWithinInterval ==
    [][ \A a \in Accounts :
          PushOf(a) =>
            LET d == resp'.data
                cache == Val(account_cache'[a])
            IN
            /\ ( /\ d.flow_in_L_min # {}
                 /\ LastLogged(a, "flow_in_L_min") # {}
                 /\ now - LastLogTime(a, "last_sensor_log_time")
                       < SENSOR_LOG_INTERVAL
                 /\ Abs(Val(d.flow_in_L_min)
                        - Val(LastLogged(a, "flow_in_L_min")))
                       < FLOW_CHANGE_THRESHOLD ) =>
                 /\ sensor_logs'[a] = sensor_logs[a]
                 /\ cache.last_sensor_log_time
                       = LastLogTime(a, "last_sensor_log_time")
                 /\ cache.last_logged_values.flow_in_L_min
                       = LastLogged(a, "flow_in_L_min")
            /\ ( /\ d.battery_percent # {}
                 /\ LastLogged(a, "battery_percent") # {}
                 /\ now - LastLogTime(a, "last_power_log_time")
                       < POWER_LOG_INTERVAL
                 /\ Abs(Val(d.battery_percent)
                        - Val(LastLogged(a, "battery_percent")))
                       < BATTERY_CHANGE_THRESHOLD ) =>
                 /\ power_logs'[a] = power_logs[a]
                 /\ cache.last_power_log_time
                       = LastLogTime(a, "last_power_log_time")
                 /\ cache.last_logged_values.battery_percent
                       = LastLogged(a, "battery_percent") ]_vars

\* A push within the sensor interval carried a flow 0.3 L/min above the
\* logged one; the log still has its single entry and the cache still holds
\* the logged value.
C7_Witness ==
    \E a \in Accounts :
        /\ resp.op = "status" /\ resp.account_id = a
        /\ resp.data.flow_in_L_min = {13}
        /\ account_cache[a] # {}
        /\ Val(account_cache[a]).last_logged_values.flow_in_L_min = {10}
        /\ now > Val(account_cache[a]).last_sensor_log_time
        /\ now - Val(account_cache[a]).last_sensor_log_time
              < SENSOR_LOG_INTERVAL
        /\ Len(sensor_logs[a]) = 1

\* C8: a push at or after a stream's interval since its last write appends
\* exactly one entry, holding the pushed value, to that stream, however the
\* value compares with the last logged one.
C8_WriteAfterInterval ==
    [][ \A a \in Accounts :
          PushOf(a) =>
            LET d == resp'.data IN
            /\ ( /\ d.flow_in_L_min # {}
                 /\ now - LastLogTime(a, "last_sensor_log_time")
                       >= SENSOR_LOG_INTERVAL ) =>
                 /\ OneAppended(sensor_logs'[a], sensor_logs[a])
                 /\ sensor_logs'[a][Len(sensor_logs'[a])].reading_value
                       = Val(d.flow_in_L_min)
            /\ ( /\ HasPowerFields(d)
                 /\ now - LastLogTime(a, "last_power_log_time")
                       >= POWER_LOG_INTERVAL ) =>
                 /\ OneAppended(power_logs'[a], power_logs[a])
                 /\ power_logs'[a][Len(power_logs'[a])].battery_percent
                       = Val(d.battery_percent) ]_vars

\* A push exactly one power interval after the last power entry wrote a
\* second entry with the same battery percent.
C8_Witness ==
    \E a \in Accounts :
        LET n == Len(power_logs[a]) IN
        /\ resp.op = "status" /\ resp.account_id = a
        /\ n >= 2
        /\ power_logs[a][n].recorded_at = now
        /\ now - power_logs[a][n - 1].recorded_at = POWER_LOG_INTERVAL
        /\ power_logs[a][n].battery_percent
              = power_logs[a][n - 1].battery_percent

-----------------------------------------------------------------------------
(* The change-significance evaluator, checked under SpecSignificant.       *)

\* C9: is_significant_change returns true when there is no old value and
\* otherwise exactly when |new - old| >= threshold; and a push that carries
\* a metric of which no value has been logged yet writes it to its stream.
C9_SignificantChange ==
    [][ /\ call'.result # {} =>
             ( Val(call'.result)
               <=> \/ call'.old_value = {}
                   \/ Abs(call'.new_value - Val(call'.old_value))
                         >= call'.threshold )
        /\ \A a \in Accounts :
             PushOf(a) =>
               LET d == resp'.data IN
               /\ ( d.flow_in_L_min # {}
                    /\ LastLogged(a, "flow_in_L_min") = {} ) =>
                    /\ OneAppended(sensor_logs'[a], sensor_logs[a])
                    /\ sensor_logs'[a][Len(sensor_logs'[a])].reading_value
                          = Val(d.flow_in_L_min)
               /\ ( HasPowerFields(d)
                    /\ LastLogged(a, "battery_percent") = {} ) =>
                    /\ OneAppended(power_logs'[a], power_logs[a])
                    /\ power_logs'[a][Len(power_logs'[a])].battery_percent
                          = Val(d.battery_percent) ]_vars

\* A change equal to the threshold was found significant, and an account
\* whose first push carried no flow has had its first flow logged.
C9_Witness ==
    /\ call.result = { TRUE }
    /\ call.old_value # {}
    /\ Abs(call.new_value - Val(call.old_value)) = call.threshold
    /\ \E a \in Accounts :
         /\ Len(power_logs[a]) = 1
         /\ Len(sensor_logs[a]) = 1
         /\ sensor_logs[a][1].reading_value = 13

-----------------------------------------------------------------------------
(* The leakage edge detector, checked under SpecLeak.                      *)

\* The false-to-true transitions of a sequence of flags, the state before
\* the first flag counting as false.
RisingEdges(flags) ==
    Cardinality({ i \in 1 .. Len(flags) :
                    flags[i] /\ (i = 1 \/ ~ flags[i - 1]) })

\* The leakage alerts of a stream.
LeakageAlerts(logs) ==
    Cardinality({ i \in 1 .. Len(logs) : logs[i].alert_type = "Leakage" })

\* C10: over the pushes of an account that each carry the leakage flag, the
\* number of leakage alerts equals the number of false-to-true transitions
\* of the flag, and the stored leakage state is the flag pushed last.
C10_LeakageEdges ==
    \A a \in Accounts :
        /\ LeakageAlerts(alerts[a]) = RisingEdges(leak_history[a])
        /\ leak_history[a] # << >> =>
             /\ account_cache[a] # {}
             /\ Val(account_cache[a]).last_logged_values.leakage_detected
                   = { leak_history[a][Len(leak_history[a])] }

\* The pushes false, true, true, true, false, true have left two alerts.
C10_Witness ==
    \E a \in Accounts :
        /\ leak_history[a] = << FALSE, TRUE, TRUE, TRUE, FALSE, TRUE >>
        /\ LeakageAlerts(alerts[a]) = 2

-----------------------------------------------------------------------------
(* The low-battery edge detector, checked under SpecThrottle.              *)

\* The low-battery alerts of a stream.
LowBatteryAlerts(logs) ==
    Cardinality({ i \in 1 .. Len(logs) :
                    logs[i].alert_type = "Low Battery" })

\* The battery percent of the account's previous push that carried one: the
\* snapshot keeps it (app.py:856, set with merge); 100 before any.
PreviousBattery(a) ==
    IF realtime_status[a] = {} THEN BATTERY_DEFAULT
    ELSE Get(Val(realtime_status[a]).battery_percent, BATTERY_DEFAULT)

\* No push of account a has carried a battery percent yet.
NoBatteryObserved(a) ==
    realtime_status[a] = {} \/ Val(realtime_status[a]).battery_percent = {}

\* C11 as stated: a push appends one low-battery alert exactly when the
\* battery percent has crossed from above 10 at the previous push to 10 or
\* below at this one; no alert while it stays at or below 10.
C11_LowBatteryOnCrossing ==
    [][ \A a \in Accounts :
          (PushOf(a) /\ resp'.data.battery_percent # {}) =>
             LowBatteryAlerts(alerts'[a]) - LowBatteryAlerts(alerts[a])
               = IF /\ Val(resp'.data.battery_percent) <= LOW_BATTERY_FLOOR
                    /\ PreviousBattery(a) > LOW_BATTERY_FLOOR
                 THEN 1 ELSE 0 ]_vars

\* C12 as stated: the first push of an account that carries a battery
\* percent appends one low-battery alert if the percent is 10 or below and
\* none if it is above 10.
C12_FirstPushLowBattery ==
    [][ \A a \in Accounts :
          ( /\ PushOf(a)
            /\ resp'.data.battery_percent # {}
            /\ NoBatteryObserved(a) ) =>
             LowBatteryAlerts(alerts'[a])
               = IF Val(resp'.data.battery_percent) <= LOW_BATTERY_FLOOR
                 THEN 1 ELSE 0 ]_vars

-----------------------------------------------------------------------------
(* The consumption aggregator, checked under SpecConsumption.              *)

\* Both pushes were handled for account a and both passed the gate.
BothUpdated(a) ==
    \A w \in Workers :
        /\ inflight[w].pc = "done"
        /\ inflight[w].account_id = a
        /\ inflight[w].gate

\* The field of the day's record that the earlier process left, 0 if it
\* left none.
Earlier(a, field) ==
    IF EarlierDay(a) = {} THEN 0 ELSE Val(EarlierDay(a))[field]

\* C13 as stated: two consumption updates of 5.0 L and 3.2 L of one account
\* and one day, interleaved in any order, from a record that is there or is
\* not, leave the total increased by 8.2 L and pump_cycles by 2.
C13_NoLostConsumptionUpdate ==
    \A a \in Accounts :
        BothUpdated(a) =>
            LET doc == consumption[a][DateOf(now)] IN
            /\ doc # {}
            /\ Val(doc).consumption_total
                  = Earlier(a, "consumption_total") + 5000 + 3200
            /\ Val(doc).pump_cycles = Earlier(a, "pump_cycles") + 2

\* C14 as stated: once the record of a day exists, its consumption_total
\* and pump_cycles never decrease, in any sequence or interleaving of
\* pushes.
C14_ConsumptionMonotonic ==
    [][ \A a \in Accounts, d \in Dates :
          consumption[a][d] # {} =>
             /\ consumption'[a][d] # {}
             /\ Val(consumption'[a][d]).consumption_total
                   >= Val(consumption[a][d]).consumption_total
             /\ Val(consumption'[a][d]).pump_cycles
                   >= Val(consumption[a][d]).pump_cycles ]_vars

-----------------------------------------------------------------------------
(* The order of the mailbox protocol, checked under Spec.                  *)

\* The status of the command document of account a in a value of the
\* commands collection.
StatusIn(cmds, a) ==
    IF cmds[a] = {} THEN "absent" ELSE Val(cmds[a]).status

\* C15 as stated (its safety half): the command an operator wrote last is
\* never marked delivered or executed without a poll (here: or a push
\* response) having returned it to the field unit.
C15_LatestCommandReturned ==
    \A a \in Accounts :
        ( /\ poll_phase[a] # "nowrite"
          /\ HasStatus(a, "delivered") \/ HasStatus(a, "executed") )
        => returned[a]

\* C16 as stated: the status of an existing command changes only along the
\* protocol: to pending by an operator write, to delivered from pending by
\* a poll, to executed from delivered by an acknowledgement.
C16_ProtocolOrder ==
    [][ \A a \in Accounts :
          LET old == StatusIn(commands, a)
              new == StatusIn(commands', a)
          IN  (old # "absent" /\ new # old) =>
                /\ new = "pending" => Handles("toggle", a)
                /\ new = "delivered" =>
                     old = "pending" /\ Handles("command", a)
                /\ new = "executed" =>
                     old = "delivered" /\ Handles("ack", a)
                /\ new # "absent" ]_vars

\* C17: a command with status executed keeps its status and its action
\* under polls, pushes and acknowledgements; only an operator write of the
\* account changes it, and leaves it pending.
C17_ExecutedIsTerminal ==
    [][ \A a \in Accounts :
          HasStatus(a, "executed") =>
             \/ commands'[a] = commands[a]
             \/ /\ Handles("toggle", a)
                /\ resp'.code = 200
                /\ HasStatus(a, "pending")' ]_vars

\* A written command was delivered and acknowledged, and a second
\* acknowledgement has left it executed with its action.
C17_Witness ==
    \E a \in Accounts :
        LET n == Len(control_logs[a]) IN
        /\ resp.op = "ack" /\ resp.account_id = a /\ resp.code = 200
        /\ HasStatus(a, "executed")
        /\ Val(commands[a]).action = "ON"
        /\ poll_phase[a] = "polled"
        /\ n >= 3
        /\ control_logs[a][n].method = "Remote"
        /\ control_logs[a][n - 1].method = "Remote"

-----------------------------------------------------------------------------
(* Requests without an account id, checked under Spec.                     *)

\* C18: a push, poll or acknowledgement without an account id is answered
\* with an error, and no snapshot, cache entry, log, consumption record or
\* command of any account is created or changed.
C18_MissingAccountRejected ==
    [][ \A op \in { "status", "command", "ack" } :
          Handles(op, NoAccount) =>
             /\ resp'.code = 400
             /\ resp'.status = "error"
             /\ resp'.command = {}
             /\ account_cache' = account_cache
             /\ store' = store ]_vars

\* An acknowledgement without an account id was rejected while an account
\* had a pending command and another one a delivered command.
C18_Witness ==
    /\ resp.op = "ack" /\ resp.account_id = NoAccount /\ resp.code = 400
    /\ \E a, b \in Accounts :
         HasStatus(a, "pending") /\ HasStatus(b, "delivered")

-----------------------------------------------------------------------------
(* Store failures, checked under SpecFailure.                              *)

\* C19: when writes of conditional records (sensor log, power log, alert,
\* consumption) fail during a push, the push is still answered "ok", the
\* snapshot holds the payload, the response carries the pending command,
\* every other stream that is due is written, and the failed one is left
\* as it was.
C19_ConditionalFailureIsolated ==
    [][ \A a \in Accounts :
          (PushOf(a) /\ resp'.failed \subseteq ConditionalOps) =>
            LET d == resp'.data
                f == resp'.failed
            IN
            /\ resp'.status = "ok"
            /\ resp'.command = IF HasStatus(a, "pending")
                               THEN { Val(commands[a]).action } ELSE {}
            /\ realtime_status'[a] # {}
            /\ Val(realtime_status'[a]).last_update = { now }
            /\ \A k \in DataFields :
                 d[k] # {} => Val(realtime_status'[a])[k] = d[k]
            /\ IF "sensor_logs" \in f
               THEN sensor_logs'[a] = sensor_logs[a]
               ELSE ( /\ d.flow_in_L_min # {}
                      /\ \/ now - LastLogTime(a, "last_sensor_log_time")
                               >= SENSOR_LOG_INTERVAL
                         \/ Significant(Val(d.flow_in_L_min),
                                        LastLogged(a, "flow_in_L_min"),
                                        FLOW_CHANGE_THRESHOLD) )
                    => OneAppended(sensor_logs'[a], sensor_logs[a])
            /\ IF "power_logs" \in f
               THEN power_logs'[a] = power_logs[a]
               ELSE ( /\ HasPowerFields(d)
                      /\ \/ now - LastLogTime(a, "last_power_log_time")
                               >= POWER_LOG_INTERVAL
                         \/ Significant(Val(d.battery_percent),
                                        LastLogged(a, "battery_percent"),
                                        BATTERY_CHANGE_THRESHOLD) )
                    => OneAppended(power_logs'[a], power_logs[a])
            /\ IF "alerts" \in f
               THEN alerts'[a] = alerts[a]
               ELSE ( /\ d.leakage_detected = { TRUE }
                      /\ ~ Get(LastLogged(a, "leakage_detected"), FALSE) )
                    => LeakageAlerts(alerts'[a])
                          = LeakageAlerts(alerts[a]) + 1
            /\ IF "consumption" \in f
               THEN consumption'[a] = consumption[a]
               ELSE ( /\ d.volume_in_L # {}
                      /\ now - LastLogTime(a, "last_consumption_update_time")
                            >= CONSUMPTION_UPDATE_INTERVAL )
                    => /\ consumption'[a][DateOf(now)] # {}
                       /\ consumption'[a] # consumption[a] ]_vars

\* The sensor log write of a push failed: the push was answered "ok" with
\* the pending command, and the power log, the alert and the consumption
\* record were written.
C19_Witness ==
    \E a \in Accounts :
        /\ resp.op = "status" /\ resp.account_id = a /\ resp.code = 200
        /\ resp.failed = { "sensor_logs" }
        /\ resp.command = { "ON" }
        /\ sensor_logs[a] = << >>
        /\ Len(power_logs[a]) = 1
        /\ LeakageAlerts(alerts[a]) = 1
        /\ consumption[a][DateOf(now)] # {}
        /\ realtime_status[a] # {}
        /\ Val(realtime_status[a]).flow_in_L_min = resp.data.flow_in_L_min

\* C20 as stated: a request during which the snapshot update (push), the
\* command read (push, poll) or the command write (toggle) fails is not
\* answered with a success.
C20_FailureSurfaced ==
    [][ /\ ( resp'.op = "status"
             /\ "realtime_status.set" \in resp'.failed )
           => resp'.code # 200
        /\ ( resp'.op \in { "status", "command" }
             /\ "commands.get" \in resp'.failed )
           => resp'.code # 200
        /\ ( resp'.op = "toggle" /\ "commands.set" \in resp'.failed )
           => resp'.code # 200 ]_vars

-----------------------------------------------------------------------------
(* Pushes with missing fields, checked under SpecFields.                   *)

\* The sensor stream of account a is due for payload d.
SensorDue(a, d) ==
    /\ d.flow_in_L_min # {}
    /\ \/ now - LastLogTime(a, "last_sensor_log_time") >= SENSOR_LOG_INTERVAL
       \/ Significant(Val(d.flow_in_L_min), LastLogged(a, "flow_in_L_min"),
                      FLOW_CHANGE_THRESHOLD)

\* The power stream of account a is due for payload d.
PowerDue(a, d) ==
    /\ HasPowerFields(d)
    /\ \/ now - LastLogTime(a, "last_power_log_time") >= POWER_LOG_INTERVAL
       \/ Significant(Val(d.battery_percent), LastLogged(a, "battery_percent"),
                      BATTERY_CHANGE_THRESHOLD)

\* The consumption update of account a is due for payload d.
ConsumptionDue(a, d) ==
    /\ d.volume_in_L # {}
    /\ now - LastLogTime(a, "last_consumption_update_time")
          >= CONSUMPTION_UPDATE_INTERVAL

\* C21: a push without flow-in writes no sensor entry and leaves the sensor
\* throttle state; without one of voltage, current and percent it writes no
\* power entry and leaves the power throttle state; without volume-in it
\* leaves the consumption record and its gate time; without battery percent
\* it emits no low-battery alert; and each stream that has its fields and
\* is due is written whatever the others lack.
C21_MissingFieldsSkipOwnStream ==
    [][ \A a \in Accounts :
          PushOf(a) =>
            LET d == resp'.data
                cache == Val(account_cache'[a])
            IN
            /\ d.flow_in_L_min = {} =>
                 /\ sensor_logs'[a] = sensor_logs[a]
                 /\ cache.last_sensor_log_time
                       = LastLogTime(a, "last_sensor_log_time")
                 /\ cache.last_logged_values.flow_in_L_min
                       = LastLogged(a, "flow_in_L_min")
            /\ ~ HasPowerFields(d) =>
                 /\ power_logs'[a] = power_logs[a]
                 /\ cache.last_power_log_time
                       = LastLogTime(a, "last_power_log_time")
                 /\ cache.last_logged_values.battery_percent
                       = LastLogged(a, "battery_percent")
            /\ d.volume_in_L = {} =>
                 /\ consumption'[a] = consumption[a]
                 /\ cache.last_consumption_update_time
                       = LastLogTime(a, "last_consumption_update_time")
            /\ d.battery_percent = {} =>
                 LowBatteryAlerts(alerts'[a]) = LowBatteryAlerts(alerts[a])
            /\ SensorDue(a, d) =>
                 OneAppended(sensor_logs'[a], sensor_logs[a])
            /\ PowerDue(a, d) =>
                 OneAppended(power_logs'[a], power_logs[a])
            /\ ConsumptionDue(a, d) =>
                 consumption'[a] # consumption[a] ]_vars

\* A first push carried flow, volume and battery percent, but no voltage:
\* the sensor entry and the consumption record were written, the power
\* stream was skipped.
C21_Witness ==
    \E a \in Accounts :
        /\ resp.op = "status" /\ resp.account_id = a /\ resp.code = 200
        /\ resp.data.flow_in_L_min # {}
        /\ resp.data.volume_in_L # {}
        /\ resp.data.battery_percent # {}
        /\ resp.data.battery_voltage_V = {}
        /\ Len(sensor_logs[a]) = 1
        /\ power_logs[a] = << >>
        /\ consumption[a][DateOf(now)] # {}
        /\ Val(account_cache[a]).last_power_log_time = 0

-----------------------------------------------------------------------------
(* Properties of the online check, checked under SpecOnline.               *)

\* The snapshot of account a has a last_update.
HasLastUpdate(a) ==
    realtime_status[a] # {} /\ Val(realtime_status[a]).last_update # {}

\* The seconds since the last_update of the snapshot of account a.
Age(a) == now - Val(Val(realtime_status[a]).last_update)

\* C22: the dashboard reports the unit of an account online exactly when
\* the snapshot exists, has a last_update, and fewer than 60 s have passed
\* since then: online at 30 s, offline at 60 s and at 90 s, offline when
\* the snapshot or its last_update is missing.
C22_OnlineWithinWindow ==
    [][ \A a \in Accounts :
          Handles("status_data", a) /\ resp'.code = 200 =>
            /\ resp'.online \in { {TRUE}, {FALSE} }
            /\ resp'.online = {TRUE} <=> (HasLastUpdate(a) /\ Age(a) < 60)
            /\ ~HasLastUpdate(a) => resp'.online = {FALSE}
            /\ HasLastUpdate(a) /\ Age(a) = 30 => resp'.online = {TRUE}
            /\ HasLastUpdate(a) /\ Age(a) \in {60, 90}
                  => resp'.online = {FALSE} ]_vars

\* The dashboard has just reported ACC_A offline exactly 60 s after the
\* last_update of its snapshot.
C22_Witness ==
    /\ resp.op = "status_data" /\ resp.account_id = "ACC_A"
    /\ resp.online = {FALSE}
    /\ HasLastUpdate("ACC_A") /\ Age("ACC_A") = 60

-----------------------------------------------------------------------------
(* Properties of the consumption summaries, checked under SpecSummary.     *)

\* The sum of a field over the records of account a dated from start to
\* end, both days included.
SumBetween(a, start, end, field) ==
    SumOver(consumption[a], { d \in Dates : start <= d /\ d <= end }, field)

\* r is x rounded to hundredths of a litre.
RoundedTo(r, x) == r % 10 = 0 /\ Abs(r - x) <= 5

\* The first and the last day of the usage request that was just handled.
UsageStart == Val(resp'.summary).start_date

UsageEnd == Val(resp'.summary).end_date

\* C23 as stated: the weekly summary equals the sum of consumption_total
\* over exactly the records dated d with today-7 <= d <= today, and the
\* usage summary of [start_date, end_date] equals the sums of volume and of
\* pump cycles over the records dated in that closed interval.
C23_SummaryEqualsSum ==
    [][ \A a \in Accounts :
          /\ Handles("status_data", a) /\ resp'.code = 200 =>
                Val(resp'.summary).consumption_week
                  = SumBetween(a, DateOf(now) - 7, DateOf(now),
                               "consumption_total")
          /\ Handles("usage", a) /\ resp'.code = 200 =>
                /\ Val(resp'.summary).total_consumption
                     = SumBetween(a, UsageStart, UsageEnd,
                                  "consumption_total")
                /\ Val(resp'.summary).total_pump_cycles
                     = SumBetween(a, UsageStart, UsageEnd, "pump_cycles")
      ]_vars

\* C23, amended: the weekly summary is the sum of consumption_total over
\* exactly the records dated d with today-7 <= d <= today, rounded to two
\* decimals; the usage summary of [start_date, end_date] is the sum of the
\* volumes of the records dated in that closed interval, rounded to two
\* decimals, and the sum of their pump cycles.
C23_SummaryIsRoundedSum ==
    [][ \A a \in Accounts :
          /\ Handles("status_data", a) /\ resp'.code = 200 =>
                RoundedTo(Val(resp'.summary).consumption_week,
                          SumBetween(a, DateOf(now) - 7, DateOf(now),
                                     "consumption_total"))
          /\ Handles("usage", a) /\ resp'.code = 200 =>
                /\ RoundedTo(Val(resp'.summary).total_consumption,
                             SumBetween(a, UsageStart, UsageEnd,
                                        "consumption_total"))
                /\ Val(resp'.summary).total_pump_cycles
                     = SumBetween(a, UsageStart, UsageEnd, "pump_cycles")
      ]_vars

\* The store holds records dated today-8, today-7, today and today+1, and
\* the dashboard has just shown a weekly summary that counts the second and
\* the third only: 2.004 L + 5.0 L, shown as 7.0 L.
C23_Witness ==
    /\ resp.op = "status_data" /\ resp.account_id = "ACC_A"
    /\ \A d \in SummaryDays : consumption["ACC_A"][d] # {}
    /\ Val(resp.summary).consumption_week = 7000

-----------------------------------------------------------------------------
(* Properties of the dashboard toggle, checked under SpecToggle.           *)

\* The opposite of the pump state that the snapshot of account a names:
\* OFF when it names ON, otherwise ON.
Opposite(a) ==
    IF realtime_status[a] # {} /\ Val(realtime_status[a]).pump_state = {"ON"}
    THEN "OFF" ELSE "ON"

\* C24: a dashboard toggle writes, as the new pending command, the opposite
\* of the snapshot's pump state (ON when the snapshot is absent or names no
\* state) whatever command the mailbox holds, and appends exactly one
\* control log entry, of method Manual; a toggle that follows a toggle with
\* the snapshot unchanged writes the same action again.
C24_ToggleOppositeOfSnapshot ==
    [][ \A a \in Accounts :
          (Handles("toggle", a) /\ resp'.code = 200) =>
             /\ commands'[a] =
                  { [ action |-> Opposite(a), timestamp |-> now,
                      status |-> "pending" ] }
             /\ control_logs'[a] =
                  Append(control_logs[a],
                         [ control_time |-> now,
                           action |-> IF Opposite(a) = "ON"
                                      THEN "TURN_ON" ELSE "TURN_OFF",
                           method |-> "Manual" ])
             /\ resp'.pump = { Opposite(a) }
             /\ (resp.op = "toggle" /\ resp.account_id = a
                   /\ resp.code = 200)
                  => /\ resp'.pump = resp.pump
                     /\ Val(commands'[a]).action = Val(commands[a]).action
      ]_vars

\* Two toggles in a row have written the same action, with no snapshot
\* there to read.
C24_Witness ==
    LET n == Len(control_logs["ACC_A"]) IN
    /\ resp.op = "toggle" /\ resp.account_id = "ACC_A" /\ resp.code = 200
    /\ realtime_status["ACC_A"] = {}
    /\ n >= 2
    /\ control_logs["ACC_A"][n].method = "Manual"
    /\ control_logs["ACC_A"][n - 1].method = "Manual"
    /\ control_logs["ACC_A"][n].action = "TURN_ON"
    /\ control_logs["ACC_A"][n - 1].action = "TURN_ON"
    /\ HasStatus("ACC_A", "pending")

-----------------------------------------------------------------------------
(* The leakage detector and pushes without the flag, checked under         *)
(* SpecLeakAbsent.                                                         *)

\* The leakage state that the process has stored for account a.
StoredLeakage(cache) ==
    IF cache = {} THEN FALSE
    ELSE Get(Val(cache).last_logged_values.leakage_detected, FALSE)

\* C25: a push that lacks the leakage flag makes the detector skip: it
\* appends no alert and leaves the stored leakage state as it was, so the
\* number of leakage alerts stays the number of false-to-true transitions
\* of the flags that were pushed (leak, no flag, leak: one alert).
C25_AbsentFlagSkipsDetector ==
    [][ \A a \in Accounts :
          (PushOf(a) /\ resp'.data.leakage_detected = {}) =>
             /\ alerts'[a] = alerts[a]
             /\ StoredLeakage(account_cache'[a])
                   = StoredLeakage(account_cache[a])
             /\ LeakageAlerts(alerts'[a]) = RisingEdges(leak_history'[a])
      ]_vars

-----------------------------------------------------------------------------
(* The consumption gate, checked under SpecGate.                           *)

\* The time of the last consumption update of account a in this process,
\* 0 when there was none.
GateTime(cache) ==
    IF cache = {} THEN 0 ELSE Val(cache).last_consumption_update_time

\* A push of payload d to account a qualifies for a consumption update.
Qualifying(a, d) ==
    /\ d.volume_in_L # {}
    /\ \/ GateTime(account_cache[a]) = 0
       \/ now - GateTime(account_cache[a]) >= 1800

\* C26: a qualifying push creates today's record with the pushed volume and
\* pump_cycles 1 when there is none, and otherwise adds the pushed volume
\* and 1 to the record's volume and pump_cycles; a push qualifies only if
\* it carries a volume and 1800 s have passed since the account's previous
\* consumption update in this process; a push that does not qualify leaves
\* the records and the gate time as they were.
C26_ConsumptionGate ==
    [][ \A a \in Accounts :
          PushOf(a) =>
            LET d     == resp'.data
                today == DateOf(now)
                old   == consumption[a][today]
            IN  IF Qualifying(a, d)
                THEN /\ consumption'[a][today] =
                          IF old = {}
                          THEN { [ consumption_date |-> today,
                                   consumption_total |-> Val(d.volume_in_L),
                                   pump_cycles |-> 1 ] }
                          ELSE { [ consumption_date |-> today,
                                   consumption_total |->
                                       Val(old).consumption_total
                                         + Val(d.volume_in_L),
                                   pump_cycles |->
                                       Val(old).pump_cycles + 1 ] }
                     /\ \A other \in Dates \ {today} :
                          consumption'[a][other] = consumption[a][other]
                     /\ GateTime(account_cache'[a]) = now
                ELSE /\ consumption'[a] = consumption[a]
                     /\ GateTime(account_cache'[a])
                           = GateTime(account_cache[a]) ]_vars

\* ACC_A, which had no record of the day, has one made by a push of 5.0 L
\* and increased by a push of 3.2 L half an hour later.
C26_Witness ==
    /\ resp.op = "status" /\ resp.account_id = "ACC_A"
    /\ resp.data.volume_in_L = {3200}
    /\ now = StartTime + 1800
    /\ consumption["ACC_A"][DateOf(now)] =
         { [ consumption_date |-> DateOf(now), consumption_total |-> 8200,
             pump_cycles |-> 2 ] }
    /\ GateTime(account_cache["ACC_A"]) = now

-----------------------------------------------------------------------------
(* Commuting increments, checked under SpecConsumption.                    *)

\* The workers whose consumption update of account a has been applied.
Applied(a) ==
    { w \in Workers :
        /\ inflight[w].account_id = a
        /\ inflight[w].gate
        /\ inflight[w].pc \in { "respond", "done" } }

\* The sum of the volumes that the pushes of the given workers carry.
RECURSIVE VolumeOf(_)
VolumeOf(ws) ==
    IF ws = {} THEN 0
    ELSE LET w == CHOOSE x \in ws : TRUE IN
         Val(inflight[w].data.volume_in_L) + VolumeOf(ws \ {w})

\* C27: when the record of the day was there before the updates, then in
\* every order and interleaving of the updates its total is the initial
\* total plus the volumes of the updates applied, and its pump_cycles the
\* initial count plus the number of updates applied.
C27_IncrementsCommute ==
    \A a \in Accounts :
        EarlierDay(a) # {} =>
            LET doc == consumption[a][DateOf(now)] IN
            /\ doc # {}
            /\ Val(doc).consumption_total
                  = Earlier(a, "consumption_total") + VolumeOf(Applied(a))
            /\ Val(doc).pump_cycles
                  = Earlier(a, "pump_cycles") + Cardinality(Applied(a))

\* Both updates of ACC_B have been applied: 1.0 L + 5.0 L + 3.2 L in three
\* updates.
C27_Witness ==
    /\ Applied("ACC_B") = Workers
    /\ Val(consumption["ACC_B"][DateOf(now)]).consumption_total = 9200
    /\ Val(consumption["ACC_B"][DateOf(now)]).pump_cycles = 3

-----------------------------------------------------------------------------
(* Independence of the two streams, checked under SpecThrottle.            *)

\* C28: within a push each of the sensor and the power stream writes
\* exactly when its own fields, its own last log time and its own last
\* logged value make it due, whatever the other stream carries, holds or
\* decides; a stream that does not write keeps its last log time and last
\* logged value whether or not the other stream writes, and a stream that
\* writes sets only its own.
C28_StreamsIndependent ==
    [][ \A a \in Accounts :
          PushOf(a) =>
            LET d == resp'.data
                cache == Val(account_cache'[a])
                sensor_written == sensor_logs'[a] # sensor_logs[a]
                power_written == power_logs'[a] # power_logs[a]
            IN
            /\ sensor_written <=> SensorDue(a, d)
            /\ power_written <=> PowerDue(a, d)
            /\ cache.last_sensor_log_time =
                  IF sensor_written THEN now
                  ELSE LastLogTime(a, "last_sensor_log_time")
            /\ cache.last_logged_values.flow_in_L_min =
                  IF sensor_written THEN d.flow_in_L_min
                  ELSE LastLogged(a, "flow_in_L_min")
            /\ cache.last_power_log_time =
                  IF power_written THEN now
                  ELSE LastLogTime(a, "last_power_log_time")
            /\ cache.last_logged_values.battery_percent =
                  IF power_written THEN d.battery_percent
                  ELSE LastLogged(a, "battery_percent") ]_vars

\* A push that carried the fields of both streams has written a sensor
\* entry, its interval being over, and no power entry: the power stream
\* keeps the time and the value of its entry of 300 s ago.
C28_Witness ==
    /\ resp.op = "status" /\ resp.account_id = "ACC_A"
    /\ resp.data.flow_in_L_min # {} /\ HasPowerFields(resp.data)
    /\ now = StartTime + 300
    /\ LastLogTime("ACC_A", "last_sensor_log_time") = now
    /\ LastLogged("ACC_A", "flow_in_L_min") = resp.data.flow_in_L_min
    /\ LastLogTime("ACC_A", "last_power_log_time") = StartTime
    /\ LastLogged("ACC_A", "battery_percent") # resp.data.battery_percent
    /\ Len(sensor_logs["ACC_A"]) = 2
    /\ Len(power_logs["ACC_A"]) = 1

-----------------------------------------------------------------------------
(* The spacing of the log entries, checked under SpecThrottle.             *)

\* Any two consecutive sensor entries of account a were written at least
\* 300 s apart or differ in reading by at least 0.5 L/min.
SensorEntriesSpaced(a) ==
    \A i \in 2 .. Len(sensor_logs[a]) :
        \/ sensor_logs[a][i].timestamp - sensor_logs[a][i - 1].timestamp
              >= 300
        \/ Abs(sensor_logs[a][i].reading_value
                 - sensor_logs[a][i - 1].reading_value) >= 5

\* Any two consecutive power entries of account a were written at least
\* 600 s apart or differ in battery percent by at least 5.
PowerEntriesSpaced(a) ==
    \A i \in 2 .. Len(power_logs[a]) :
        \/ power_logs[a][i].recorded_at - power_logs[a][i - 1].recorded_at
              >= 600
        \/ Abs(power_logs[a][i].battery_percent
                 - power_logs[a][i - 1].battery_percent) >= 5

\* C29: over the serial pushes of an account in one process, any two
\* consecutive sensor entries are at least 300 s apart or differ in reading
\* by at least 0.5, and any two consecutive power entries are at least
\* 600 s apart or differ in battery percent by at least 5; the value a push
\* is compared with is the one logged last, and every write, also one made
\* for a significant change, restarts the interval of its stream.
C29_ConsecutiveEntriesSpaced ==
    /\ [](\A a \in Accounts :
            SensorEntriesSpaced(a) /\ PowerEntriesSpaced(a))
    /\ [][ \A a \in Accounts :
             PushOf(a) =>
               LET cache == Val(account_cache'[a]) IN
               /\ sensor_logs'[a] # sensor_logs[a] =>
                    /\ cache.last_sensor_log_time = now
                    /\ cache.last_logged_values.flow_in_L_min
                          = { sensor_logs'[a][Len(sensor_logs'[a])]
                                .reading_value }
               /\ power_logs'[a] # power_logs[a] =>
                    /\ cache.last_power_log_time = now
                    /\ cache.last_logged_values.battery_percent
                          = { power_logs'[a][Len(power_logs'[a])]
                                .battery_percent }
               /\ sensor_logs'[a] = sensor_logs[a] =>
                    cache.last_logged_values.flow_in_L_min
                      = LastLogged(a, "flow_in_L_min")
               /\ power_logs'[a] = power_logs[a] =>
                    cache.last_logged_values.battery_percent
                      = LastLogged(a, "battery_percent") ]_vars

\* Of three pushes the first logged flow 1.0 and the last logged flow 1.5
\* within the interval, for its distance from 1.0; the two power entries
\* are as close in time.
C29_Witness ==
    /\ Len(sensor_logs["ACC_A"]) = 2
    /\ sensor_logs["ACC_A"][1].reading_value = 10
    /\ sensor_logs["ACC_A"][2].reading_value = 15
    /\ sensor_logs["ACC_A"][2].timestamp - sensor_logs["ACC_A"][1].timestamp
          < 300
    /\ LastLogTime("ACC_A", "last_sensor_log_time")
          = sensor_logs["ACC_A"][2].timestamp
    /\ Len(power_logs["ACC_A"]) = 2
    /\ power_logs["ACC_A"][2].recorded_at - power_logs["ACC_A"][1].recorded_at
          < 600
    /\ nreq = 3

-----------------------------------------------------------------------------
(* The snapshot and the online check under pushes, checked under           *)
(* SpecOnline.                                                             *)

\* The value of field k in the snapshot documents docs of account a, none
\* when there is no snapshot.
SnapshotField(docs, a, k) == IF docs[a] = {} THEN {} ELSE Val(docs[a])[k]

\* C30: every accepted push updates the snapshot of its account, merging
\* the fields it carries and setting last_update to the time of the push,
\* whether the conditional writes of the push happen, are skipped or fail,
\* so the account is online right after the push; no other request changes
\* the snapshot, and the dashboard reports the account online as long as
\* fewer than 60 s have passed since that last_update.
C30_PushRefreshesSnapshot ==
    [][ \A a \in Accounts :
          /\ PushOf(a) =>
                /\ realtime_status'[a] # {}
                /\ SnapshotField(realtime_status', a, "last_update") = {now}
                /\ \A k \in DataFields :
                     SnapshotField(realtime_status', a, k) =
                        IF resp'.data[k] # {} THEN resp'.data[k]
                        ELSE SnapshotField(realtime_status, a, k)
                /\ now' - Val(SnapshotField(realtime_status', a,
                                            "last_update")) < 60
          /\ ~ PushOf(a) => realtime_status'[a] = realtime_status[a]
          /\ (Handles("status_data", a) /\ resp'.code = 200) =>
                resp'.online = { HasLastUpdate(a) /\ Age(a) < 60 } ]_vars

\* The dashboard has reported ACC_A online 30 s after a push whose sensor
\* entry the store rejected, at a time when the last_update that the store
\* held at the start was more than 60 s old.
C30_Witness ==
    /\ resp.op = "status_data" /\ resp.account_id = "ACC_A"
    /\ resp.online = {TRUE}
    /\ HasLastUpdate("ACC_A") /\ Age("ACC_A") = 30
    /\ now >= StartTime + 90
    /\ sensor_logs["ACC_A"] = << >>
    /\ LastLogTime("ACC_A", "last_sensor_log_time") = now - 30

-----------------------------------------------------------------------------
(* The first push after a restart, checked under SpecRestart.              *)

\* C31: a restart leaves the throttle cache of every account empty, and
\* the first push of an account that a process handles (the one that finds
\* the cache empty) appends one sensor entry if it carries
\* the flow, one power entry if it carries the power fields, and performs
\* one consumption update if it carries a volume, however recently the
\* previous process wrote and whatever the values are.
C31_FirstPushAfterRestartLogs ==
    [][ \A a \in Accounts :
        /\ resp'.op = "restart" => account_cache'[a] = {}
        /\ (PushOf(a) /\ account_cache[a] = {}) =>
            LET d     == resp'.data
                today == DateOf(now)
                old   == consumption[a][today]
            IN
            /\ d.flow_in_L_min # {} =>
                 /\ OneAppended(sensor_logs'[a], sensor_logs[a])
                 /\ sensor_logs'[a][Len(sensor_logs'[a])].reading_value
                       = Val(d.flow_in_L_min)
            /\ HasPowerFields(d) =>
                 /\ OneAppended(power_logs'[a], power_logs[a])
                 /\ power_logs'[a][Len(power_logs'[a])].battery_percent
                       = Val(d.battery_percent)
            /\ d.volume_in_L # {} =>
                 /\ consumption'[a][today] # {}
                 /\ Val(consumption'[a][today]).consumption_total =
                       (IF old = {} THEN 0 ELSE Val(old).consumption_total)
                          + Val(d.volume_in_L)
                 /\ Val(consumption'[a][today]).pump_cycles =
                       (IF old = {} THEN 0 ELSE Val(old).pump_cycles) + 1
      ]_vars

\* After a restart the push of ACC_A has repeated, at the same second and
\* with the same values, the entries and the consumption update that the
\* previous process made.
C31_Witness ==
    /\ resp.op = "status" /\ resp.account_id = "ACC_A"
    /\ Len(sensor_logs["ACC_A"]) = 2
    /\ sensor_logs["ACC_A"][1] = sensor_logs["ACC_A"][2]
    /\ Len(power_logs["ACC_A"]) = 2
    /\ power_logs["ACC_A"][1] = power_logs["ACC_A"][2]
    /\ consumption["ACC_A"][DateOf(now)] # {}
    /\ Val(consumption["ACC_A"][DateOf(now)]).pump_cycles = 2

-----------------------------------------------------------------------------
(* Malformed consumption records, checked under SpecMalformed.             *)

\* The documents of account a that are well-formed (their date parses and
\* their total is a number) and dated from start to end.
WellFormedIn(a, start, end) ==
    { d \in Dates :
        /\ consumption[a][d] # {}
        /\ strptime(Val(consumption[a][d])) # {}
        /\ is_number(Val(consumption[a][d]).consumption_total)
        /\ start <= Val(strptime(Val(consumption[a][d])))
        /\ Val(strptime(Val(consumption[a][d]))) <= end }

\* C32: a record whose date is missing or does not parse, or whose total
\* is not a number, adds nothing to the day, week and month totals and to
\* the totals of a usage summary, and every well-formed record in the
\* range is counted: no record aborts or zeroes a summary.
C32_MalformedRecordSkipped ==
    [][ \A a \in Accounts :
          /\ Handles("status_data", a) /\ resp'.code = 200 =>
                LET today == DateOf(now)
                    docs  == consumption[a]
                IN
                /\ RoundedTo(Val(resp'.summary).consumption_day,
                             SumOver(docs, WellFormedIn(a, today, today),
                                     "consumption_total"))
                /\ RoundedTo(Val(resp'.summary).consumption_week,
                             SumOver(docs, WellFormedIn(a, today - 7, today),
                                     "consumption_total"))
                /\ RoundedTo(Val(resp'.summary).consumption_month,
                             SumOver(docs, WellFormedIn(a, today - 30, today),
                                     "consumption_total"))
          /\ Handles("usage", a) /\ resp'.code = 200 =>
                /\ RoundedTo(Val(resp'.summary).total_consumption,
                             SumOver(consumption[a],
                                     WellFormedIn(a, UsageStart, UsageEnd),
                                     "consumption_total"))
                /\ Val(resp'.summary).total_pump_cycles
                     = SumOver(consumption[a],
                               WellFormedIn(a, UsageStart, UsageEnd),
                               "pump_cycles") ]_vars

-----------------------------------------------------------------------------
(* The log streams, checked under SpecAppend.                              *)

\* after is before, or before with one entry appended.
AtMostOneAppended(after, before) ==
    after = before \/ OneAppended(after, before)

\* C33: every push, poll, acknowledgement and toggle leaves the entries
\* of the sensor, power, control and alert streams of every account as
\* they were and adds at most one entry to each stream.
C33_StreamsAppendOnly ==
    [][ \A a \in Accounts :
          /\ AtMostOneAppended(sensor_logs'[a], sensor_logs[a])
          /\ AtMostOneAppended(power_logs'[a], power_logs[a])
          /\ AtMostOneAppended(control_logs'[a], control_logs[a])
          /\ AtMostOneAppended(alerts'[a], alerts[a]) ]_vars

-----------------------------------------------------------------------------
(* Interleaved polls, checked under SpecPoll.                              *)

\* C34: a command that the operator wrote is returned by at most one poll:
\* a poll returns an action only if no poll has returned one since the
\* last operator write, also when two polls of the account interleave
\* between the read of the mailbox and the write of delivered.
C34_ReturnedByOnePoll ==
    [][ \A a \in Accounts :
          (Handles("command", a) /\ resp'.code = 200
             /\ resp'.command # { "NONE" })
            => ~ returned[a] ]_vars

-----------------------------------------------------------------------------
(* The shape of the mailbox, checked under Spec.                           *)

\* C35: the mailbox of every registered account holds exactly one command;
\* its status is pending, delivered or executed and its action is ON, OFF
\* or NONE; a pending or delivered command has the action ON or OFF, and
\* the action NONE occurs only with the status executed.
C35_MailboxShape ==
    \A a \in registered :
        /\ Cardinality(commands[a]) = 1
        /\ \A c \in commands[a] :
              /\ c.status \in { "pending", "delivered", "executed" }
              /\ c.action \in { "ON", "OFF", "NONE" }
              /\ c.status \in { "pending", "delivered" }
                    => c.action \in { "ON", "OFF" }
              /\ c.action = "NONE" => c.status = "executed"

\* Both accounts are registered; one was toggled and polled and holds a
\* delivered ON or OFF, the other was acknowledged without a command and
\* still holds the NONE of its registration.
C35_Witness ==
    /\ registered = Accounts
    /\ \E a \in Accounts :
          /\ commands[a] # {}
          /\ Val(commands[a]).status = "delivered"
          /\ Val(commands[a]).action \in { "ON", "OFF" }
    /\ \E b \in Accounts :
          /\ commands[b] = { InitialCommand }
          /\ resp.op = "ack" /\ resp.account_id = b /\ resp.code = 200

-----------------------------------------------------------------------------
(* A new account before its first toggle, checked under Spec.              *)

\* C36: while a registered account has not been toggled since its
\* registration, every command poll of the account answers NONE, no
\* response to a push of the account carries a command, and neither the
\* polls nor the pushes change the mailbox.
C36_FreshMailboxIsSilent ==
    [][ \A a \in registered :
          poll_phase[a] = "nowrite" =>
             /\ (Handles("command", a) /\ resp'.code = 200) =>
                   /\ resp'.command = { "NONE" }
                   /\ commands' = commands
             /\ (Handles("status", a) /\ resp'.code = 200) =>
                   /\ resp'.command = {}
                   /\ commands' = commands ]_vars

\* A registered account that was never toggled has pushed, which left a
\* sensor log entry, and has then polled: the poll answered NONE and the
\* mailbox is the one of the registration.
C36_Witness ==
    \E a \in registered :
        /\ poll_phase[a] = "nowrite"
        /\ sensor_logs[a] # << >>
        /\ resp.op = "command" /\ resp.account_id = a
        /\ resp.code = 200 /\ resp.command = { "NONE" }
        /\ commands[a] = { InitialCommand }

-----------------------------------------------------------------------------
(* The online flag of a new account, checked under SpecNewAccount.  The    *)
(* process of SpecNewAccount is never restarted, so the cache entry of an  *)
(* account exists exactly when a push of the account was handled, and the  *)
(* last_update of a snapshot that a push has written is the time of the    *)
(* latest push.                                                            *)

\* C37: the dashboard reports the unit of an account online only if a push
\* of the account was accepted within the preceding 60 s; an account whose
\* unit has never pushed is reported offline.
C37_OnlineOnlyAfterPush ==
    [][ \A a \in Accounts :
          (Handles("status_data", a) /\ resp'.code = 200) =>
             /\ resp'.online = {TRUE} =>
                   /\ account_cache[a] # {}
                   /\ HasLastUpdate(a) /\ Age(a) < ONLINE_WINDOW
             /\ account_cache[a] = {} => resp'.online = {FALSE} ]_vars

-----------------------------------------------------------------------------
(* The acknowledged action and the mailbox, checked under Spec.            *)

\* The acknowledgement of account a that the step handles was appended to
\* the control log, and its action is the one that the unit of a received
\* last.
AcksLastReceived(a) ==
    /\ Handles("ack", a) /\ resp'.code = 200
    /\ received[a] # {}
    /\ Len(control_logs'[a]) = Len(control_logs[a]) + 1
    /\ control_logs'[a][Len(control_logs'[a])].action = Val(received[a])

\* C38: right after a successful acknowledgement by a unit that
\* acknowledges the action it received last, the action of the appended
\* Remote entry of the control log is the action that the mailbox holds,
\* and the status of the mailbox is executed, also when the operator wrote
\* between the delivery and the acknowledgement.
C38_AckedActionIsMailboxAction ==
    [][ \A a \in Accounts :
          AcksLastReceived(a) =>
             /\ control_logs'[a][Len(control_logs'[a])].method = "Remote"
             /\ HasStatus(a, "executed")'
             /\ control_logs'[a][Len(control_logs'[a])].action
                   = Val(commands'[a]).action ]_vars

-----------------------------------------------------------------------------
(* The throttle cache and the log streams, checked under SpecFailure: the  *)
(* process starts on an empty store and is never restarted, so every log   *)
(* entry was written by this process.                                      *)

\* C39: when the cache of an account holds a last logged flow, the latest
\* entry of the sensor log of the account has that reading; when it holds
\* a last logged battery percent, the latest entry of the power log has
\* that percent; this also after writes that the store rejected.
C39_CacheMatchesLastEntry ==
    \A a \in Accounts :
        account_cache[a] # {} =>
            LET last == Val(account_cache[a]).last_logged_values IN
            /\ last.flow_in_L_min # {} =>
                  /\ sensor_logs[a] # << >>
                  /\ sensor_logs[a][Len(sensor_logs[a])].reading_value
                        = Val(last.flow_in_L_min)
            /\ last.battery_percent # {} =>
                  /\ power_logs[a] # << >>
                  /\ power_logs[a][Len(power_logs[a])].battery_percent
                        = Val(last.battery_percent)

=============================================================================
